---- MODULE Spec2Model ----
(***************************************************************************)
(* Model of geo-exposure-map/lib/exposure-core.ts: the allocation engine   *)
(* buildExposureData and its helpers latestByIso3, median, clamp and       *)
(* segmentOfCountry.                                                       *)
(*                                                                         *)
(* Numbers.  JavaScript numbers are modelled exactly, without rounding:    *)
(*   - an indicator value is a record [k, x]: k = "num" for the finite     *)
(*     integer x, "nan" for NaN, "inf" for +Infinity;                      *)
(*   - a score is a record [nan, v, e] standing for the real number        *)
(*     v/40000 + e * 1e-9 (v counts units of 1/40000, the common           *)
(*     denominator of the hub, office and near-zero multipliers, e counts  *)
(*     units of the 1e-9 floor score), or for NaN when nan is TRUE;        *)
(*   - a quotient of two scores is kept as the fraction [num, den];        *)
(*   - an amount of revenue is a linear form over the three segment        *)
(*     anchors: a function giving, for each segment, the fraction of that  *)
(*     segment's anchor total it holds.                                    *)
(* Math.pow is tabulated to two decimals on the values the model draws.    *)
(***************************************************************************)
EXTENDS Integers, Sequences, FiniteSets, TLC

VARIABLES
  pc,                    \* position of buildExposureData
  countries,             \* the country records kept by the taxonomy loader
  pending,               \* retrievals of the Promise.all still in flight
  json,                  \* the bodies the completed retrievals resolved to
  failedFeeds,           \* history: the retrievals that failed upstream
  lookups,               \* gdp, mcapPct, creditPct, gdpPc, netPct, pop
  segMedian,             \* per segment fallback medians
  scores,                \* per segment: iso3 -> score
  allocations,           \* the allocation rows
  totalRevenueMillions,
  iso3ToIntensity,
  maxShare,
  countryDetails,        \* countryDetailsMap, in insertion order
  payload,               \* what the invocation returned, if it returned
  fnArg,                 \* argument of the pure function under test
  fnRes                  \* its result

vars == <<pc, countries, pending, json, failedFeeds, lookups, segMedian, scores,
          allocations, totalRevenueMillions, iso3ToIntensity, maxShare,
          countryDetails, payload, fnArg, fnRes>>

-----------------------------------------------------------------------------
(* Generic helpers *)

NULL == "<null>"         \* JavaScript null / undefined where a string is expected
NONE == [k |-> "none"]   \* no value yet

Range(s) == {s[i] : i \in 1..Len(s)}

-----------------------------------------------------------------------------
(* JavaScript numbers held by the indicator lookups *)

Num(x) == [k |-> "num", x |-> x]
NaNV == [k |-> "nan", x |-> 0]
InfV == [k |-> "inf", x |-> 0]
UNDEF == [k |-> "undef", x |-> 0]     \* undefined (a missing map entry, ?.value)

\* Number.isFinite
IsFinite(v) == v.k = "num"

\* Number(val) for a value that passed `val == null`
ToNumber(raw) ==
  CASE raw.k = "num" -> Num(raw.x)
    [] raw.k = "inf" -> InfV            \* a literal beyond the double range
    [] raw.k = "str" -> NaNV            \* a non-numeric string
    [] OTHER -> NaNV

-----------------------------------------------------------------------------
(* Static policy tables *)

SEGMENTS == <<"AMERICAS", "EMEA", "APAC">>     \* Object.keys order

\* FY2025 segment revenues, in thousandths of USD millions (x / 1_000)
SEGMENT_REVENUE_USD_M == [AMERICAS |-> 1506108, EMEA |-> 580284, APAC |-> 235356]

\* HUB_MULT in twentieths: 1.3 = 26/20, 1.25 = 25/20, 1.2 = 24/20, 1.15 = 23/20
HUB_MULT ==
  [USA |-> 26, GBR |-> 26, CHE |-> 26, LUX |-> 26, SGP |-> 26, HKG |-> 26,
   ARE |-> 25, IRL |-> 24, NLD |-> 24, FRA |-> 23, DEU |-> 23, JPN |-> 23,
   AUS |-> 23, CAN |-> 23]

OFFICE_COUNTRIES ==
  {"USA", "BRA", "CAN", "BGR", "GBR", "FRA", "DEU", "ITA", "LVA", "LUX", "NLD",
   "SWE", "ARE", "AUS", "CHN", "HKG", "IND", "JPN", "PHL", "SGP"}

NEAR_ZERO == {"CUB", "IRN", "PRK", "RUS"}

\* HUB_MULT.get(iso3) ?? 1.0, in twentieths
HubMult(iso3) == IF iso3 \in DOMAIN HUB_MULT THEN HUB_MULT[iso3] ELSE 20
\* variant: the office multiplier replaced by the hub multiplier, not compounded
OfficeMultUnlessHub(iso3) ==
  IF iso3 \in OFFICE_COUNTRIES /\ iso3 \notin DOMAIN HUB_MULT THEN 23 ELSE 20

\* OFFICE_MULT = 1.15 = 23/20 when the country is in OFFICE_COUNTRIES
OfficeMult(iso3) == IF iso3 \in OFFICE_COUNTRIES THEN 23 ELSE 20
\* variant: the near-zero list is never consulted
NearZeroIgnored(iso3) == 100

\* NEAR_ZERO_MULT = 0.01 = 1/100 when the country is in NEAR_ZERO
NearZeroMult(iso3) == IF iso3 \in NEAR_ZERO THEN 1 ELSE 100

-----------------------------------------------------------------------------
(* latestByIso3 *)

RECURSIVE LatestLoop(_, _)
\* the for loop of latestByIso3 over rows, from the map `best`
LatestLoop(rows, best) ==
  IF rows = <<>> THEN best
  ELSE LET it == rows[1]
           iso3 == it.countryiso3code
           year == it.date
           val == it.value
       IN IF iso3 = "" \/ iso3 = NULL \/ ~IsFinite(year) \/ val.k \in {"null", "undef"}
          THEN LatestLoop(Tail(rows), best)
          ELSE IF iso3 \notin DOMAIN best \/ year.x > best[iso3].year
               THEN LatestLoop(Tail(rows),
                      [c \in DOMAIN best \cup {iso3} |->
                         IF c = iso3 THEN [year |-> year.x, value |-> ToNumber(val)]
                         ELSE best[c]])
               ELSE LatestLoop(Tail(rows), best)

\* wbJson is [meta, rows] on success; any other body has no rows
latestByIso3(wbJson) ==
  LET rows == IF wbJson.isArray /\ wbJson.length > 1 THEN wbJson.rows ELSE <<>>
  IN LatestLoop(rows, <<>>)

\* map.get(iso3)?.value
ValueOf(map, iso3) == IF iso3 \in DOMAIN map THEN map[iso3].value ELSE UNDEF

-----------------------------------------------------------------------------
(* segmentOfCountry *)

\* variant: the sub-region is not looked at, all of Asia is APAC
segmentIgnoringSubRegion(region, subRegion) ==
  CASE region = "Americas" -> "AMERICAS"
    [] region \in {"Europe", "Africa"} -> "EMEA"
    [] region \in {"Asia", "Oceania"} -> "APAC"
    [] OTHER -> NULL

\* variant: a region outside the table falls into EMEA instead of null
segmentWithDefault(region, subRegion) ==
  CASE region = "Americas" -> "AMERICAS"
    [] region = "Asia" /\ subRegion # "Western Asia" -> "APAC"
    [] region = "Oceania" -> "APAC"
    [] OTHER -> "EMEA"

segmentOfCountry(region, subRegion) ==
  IF region = "Americas" THEN "AMERICAS"
  ELSE IF region = "Europe" THEN "EMEA"
  ELSE IF region = "Africa" THEN "EMEA"
  ELSE IF region = "Asia"
       THEN (IF subRegion = "Western Asia" THEN "EMEA" ELSE "APAC")
  ELSE IF region = "Oceania" THEN "APAC"
  ELSE NULL

-----------------------------------------------------------------------------
(* median and clamp *)

RECURSIVE InsertSorted(_, _)
InsertSorted(x, s) ==
  IF s = <<>> THEN <<x>>
  ELSE IF x <= s[1] THEN <<x>> \o s ELSE <<s[1]>> \o InsertSorted(x, Tail(s))

RECURSIVE SortAsc(_)
\* Array.prototype.sort((x, y) => x - y)
SortAsc(s) == IF s = <<>> THEN <<>> ELSE InsertSorted(s[1], SortAsc(Tail(s)))

RECURSIVE FiniteOnly(_)
\* arr.filter((x) => Number.isFinite(x)), as the sequence of the finite numbers
FiniteOnly(arr) ==
  IF arr = <<>> THEN <<>>
  ELSE IF IsFinite(arr[1]) THEN <<arr[1].x>> \o FiniteOnly(Tail(arr))
       ELSE FiniteOnly(Tail(arr))

\* variant: the upper middle value for an even count, no mean
medianUpperMiddle(arr) ==
  LET a == SortAsc(FiniteOnly(arr))
      mid == Len(a) \div 2
  IN IF Len(a) = 0 THEN [k |-> "null", x |-> 0]
     ELSE Num(a[mid + 1])

\* median(arr): null for no finite value.  The indicator values the model draws
\* are even, so the mean of the two middle values is computed exactly.
median(arr) ==
  LET a == SortAsc(FiniteOnly(arr))
      mid == Len(a) \div 2
  IN IF Len(a) = 0 THEN [k |-> "null", x |-> 0]
     ELSE IF Len(a) % 2 = 1 THEN Num(a[mid + 1])
     ELSE Num((a[mid] + a[mid + 1]) \div 2)

\* median(...) ?? fallback
OrElse(v, fallback) == IF v.k \in {"null", "undef"} THEN fallback ELSE v

Min(a, b) == IF a < b THEN a ELSE b
Max(a, b) == IF a > b THEN a ELSE b

\* Math.max(lo, Math.min(hi, x)): NaN stays NaN, +Infinity becomes hi
clamp(x, lo, hi) ==
  CASE x.k = "num" -> Num(Max(lo, Min(hi, x.x)))
    [] x.k = "inf" -> Num(hi)
    [] OTHER -> NaNV

-----------------------------------------------------------------------------
(* Math.pow, tabulated to two decimals (values are multiples of 0.01) *)

\* Math.pow(g, 0.7)
PowGdp(g) ==
  CASE g = 500 -> 7750 [] g = 1000 -> 12589 [] g = 2000 -> 20451

\* Math.pow(1 + x / 100, 0.9)
PowMcap(x) ==
  CASE x = 0 -> 100 [] x = 30 -> 127 [] x = 100 -> 187 [] x = 150 -> 228
    [] x = 200 -> 269 [] x = 400 -> 426

\* Math.pow(1 + x / 100, 0.6)
PowCredit(x) ==
  CASE x = 0 -> 100 [] x = 40 -> 122 [] x = 50 -> 128 [] x = 60 -> 133
    [] x = 80 -> 142 [] x = 270 -> 219 [] x = 300 -> 230

\* Math.pow(1 + x / 50_000, 0.35)
PowWealth(x) ==
  CASE x = 0 -> 100 [] x = 8000 -> 105 [] x = 20000 -> 112 [] x = 50000 -> 127
    [] x = 60000 -> 132 [] x = 80000 -> 140

\* Math.pow(0.2 + x / 100, 0.25)
PowNet(x) ==
  CASE x = 0 -> 67 [] x = 55 -> 93 [] x = 60 -> 95 [] x = 75 -> 99
    [] x = 90 -> 102 [] x = 100 -> 105

\* a factor of the composite score: [nan, f], f in hundredths
Factor(x, pow) ==
  IF x.k = "nan" THEN [nan |-> TRUE, f |-> 0] ELSE [nan |-> FALSE, f |-> pow]

\* product of two numbers held in hundredths, to the nearest hundredth
FMul(a, b) ==
  IF a.nan \/ b.nan THEN [nan |-> TRUE, f |-> 0]
  ELSE [nan |-> FALSE, f |-> (a.f * b.f + 50) \div 100]

-----------------------------------------------------------------------------
(* Scores: [nan, v, e] is v/40000 + e * 1e-9 *)

NaNS == [nan |-> TRUE, v |-> 0, e |-> 0]
ZeroS == [nan |-> FALSE, v |-> 0, e |-> 0]
OneS == [nan |-> FALSE, v |-> 40000, e |-> 0]
FloorS == [nan |-> FALSE, v |-> 0, e |-> 1]          \* 1e-9

\* a + b
ScoreAdd(a, b) ==
  IF a.nan \/ b.nan THEN NaNS
  ELSE [nan |-> FALSE, v |-> a.v + b.v, e |-> a.e + b.e]

\* x > 0 (false for NaN)
Positive(x) == ~x.nan /\ (x.v > 0 \/ x.e > 0)

\* a < b for two scores that are numbers (e stays far below 1/40000 / 1e-9)
ScoreLess(a, b) == a.v < b.v \/ (a.v = b.v /\ a.e < b.e)

-----------------------------------------------------------------------------
(* Fractions of scores: the within-segment share s / sum, or the literal 0 *)

ZeroFrac == [num |-> ZeroS, den |-> OneS]
IsZeroFrac(f) == f.num = ZeroS
IsOneFrac(f) == f.num = f.den /\ Positive(f.den)

\* equality of two fractions (over one denominator, or both 0, or both 1)
FracEq(a, b) ==
  \/ IsZeroFrac(a) /\ IsZeroFrac(b)
  \/ IsOneFrac(a) /\ IsOneFrac(b)
  \/ a.den = b.den /\ a.num = b.num

\* a + b for fractions over one denominator
FracAdd(a, b) ==
  CASE IsZeroFrac(a) -> b
    [] IsZeroFrac(b) -> a
    [] a.den = b.den -> [num |-> ScoreAdd(a.num, b.num), den |-> a.den]

\* a <= b for fractions over one denominator
FracLeq(a, b) ==
  \/ IsZeroFrac(a)
  \/ a.den = b.den /\ (a.num = b.num \/ ScoreLess(a.num, b.num))

-----------------------------------------------------------------------------
(* Revenue: for each segment, the fraction of its anchor total *)

SegNames == Range(SEGMENTS)

ZeroMoney == [g \in SegNames |-> ZeroFrac]

\* total * share, total the anchor of segment seg
AnchorTimes(seg, share) == [g \in SegNames |-> IF g = seg THEN share ELSE ZeroFrac]

MoneyAdd(a, b) == [g \in SegNames |-> FracAdd(a[g], b[g])]
MoneyEq(a, b) == \A g \in SegNames : FracEq(a[g], b[g])
MoneyPositive(a) == \E g \in SegNames : Positive(a[g].num)
\* a <= b, segment by segment (the anchors are positive)
MoneyLeq(a, b) == \A g \in SegNames : FracLeq(a[g], b[g])

RECURSIVE MoneySum(_)
MoneySum(s) == IF s = <<>> THEN ZeroMoney ELSE MoneyAdd(s[1], MoneySum(Tail(s)))

\* The global share revenueMillions / totalRevenueMillions, or the literal 0
ZeroShare == [zero |-> TRUE, num |-> ZeroMoney, den |-> ZeroMoney]
\* variant: the share is left at its initial 0
ShareLeftAtZero(rev, total) == ZeroShare

ShareOf(rev, total) ==
  IF MoneyPositive(total) THEN [zero |-> FALSE, num |-> rev, den |-> total]
  ELSE ZeroShare
ShareIsZero(sh) == sh.zero \/ ~MoneyPositive(sh.num)

-----------------------------------------------------------------------------
(* Exact comparison of revenue amounts: naturals of any size, as little-endian
   sequences of base-10000 digits *)

RECURSIVE BigOf(_)
BigOf(n) == IF n = 0 THEN <<>> ELSE <<n % 10000>> \o BigOf(n \div 10000)

BigDigit(a, i) == IF i <= Len(a) THEN a[i] ELSE 0

RECURSIVE BigAddFrom(_, _, _, _)
BigAddFrom(a, b, i, carry) ==
  IF i > Len(a) /\ i > Len(b) THEN (IF carry = 0 THEN <<>> ELSE <<carry>>)
  ELSE LET t == BigDigit(a, i) + BigDigit(b, i) + carry
       IN <<t % 10000>> \o BigAddFrom(a, b, i + 1, t \div 10000)

BigAdd(a, b) == BigAddFrom(a, b, 1, 0)

RECURSIVE BigTimesDigit(_, _, _, _)
BigTimesDigit(a, d, i, carry) ==
  IF i > Len(a) THEN (IF carry = 0 THEN <<>> ELSE <<carry>>)
  ELSE LET t == a[i] * d + carry
       IN <<t % 10000>> \o BigTimesDigit(a, d, i + 1, t \div 10000)

RECURSIVE BigMulFrom(_, _, _)
BigMulFrom(a, b, j) ==
  IF j > Len(b) THEN <<>>
  ELSE BigAdd(BigTimesDigit(a, b[j], 1, 0), <<0>> \o BigMulFrom(a, b, j + 1))

RECURSIVE BigTrim(_)
BigTrim(a) ==
  IF a # <<>> /\ a[Len(a)] = 0 THEN BigTrim(SubSeq(a, 1, Len(a) - 1)) ELSE a

BigMul(a, b) == IF a = <<>> \/ b = <<>> THEN <<>> ELSE BigTrim(BigMulFrom(a, b, 1))

RECURSIVE BigLessFrom(_, _, _)
BigLessFrom(a, b, i) ==
  IF i = 0 THEN FALSE
  ELSE IF a[i] # b[i] THEN a[i] < b[i] ELSE BigLessFrom(a, b, i - 1)

BigLess(a, b) ==
  IF Len(a) # Len(b) THEN Len(a) < Len(b) ELSE BigLessFrom(a, b, Len(a))

\* a score that is a number, in units of 1e-9: v/40000 = v * 25000 * 1e-9
Nano(x) == BigAdd(BigMul(BigOf(x.v), BigOf(25000)), BigOf(x.e))

RECURSIVE MoneyRatFrom(_, _)
\* the amount m as the rational [n, d] of thousandths of USD millions
MoneyRatFrom(m, i) ==
  IF i > Len(SEGMENTS) THEN [n |-> <<>>, d |-> BigOf(1)]
  ELSE LET g == SEGMENTS[i]
           rest == MoneyRatFrom(m, i + 1)
       IN IF IsZeroFrac(m[g]) THEN rest
          ELSE LET tn == BigMul(BigOf(SEGMENT_REVENUE_USD_M[g]), Nano(m[g].num))
                   td == Nano(m[g].den)
               IN [n |-> BigAdd(BigMul(tn, rest.d), BigMul(rest.n, td)),
                   d |-> BigMul(td, rest.d)]

\* a < b for two amounts of revenue
MoneyLess(a, b) ==
  LET ra == MoneyRatFrom(a, 1)
      rb == MoneyRatFrom(b, 1)
  IN BigLess(BigMul(ra.n, rb.d), BigMul(rb.n, ra.d))

\* a > b for two global shares (`share > maxShare`)
ShareGreater(a, b) ==
  IF ShareIsZero(a) THEN FALSE
  ELSE IF ShareIsZero(b) THEN TRUE
  ELSE IF a.den = b.den THEN MoneyLess(b.num, a.num)
  ELSE LET ra == MoneyRatFrom(a.num, 1)
           da == MoneyRatFrom(a.den, 1)
           rb == MoneyRatFrom(b.num, 1)
           db == MoneyRatFrom(b.den, 1)
       IN BigLess(BigMul(BigMul(rb.n, db.d), BigMul(ra.d, da.n)),
                  BigMul(BigMul(ra.n, da.d), BigMul(rb.d, db.n)))

-----------------------------------------------------------------------------
(* splitCsvLine: a line is a sequence of characters, a field too *)

QUOTE == "\""
COMMA == ","

RECURSIVE SplitPlainFrom(_, _, _, _, _)
\* variant: a quote only toggles the quoted state, a doubled quote is no escape
SplitPlainFrom(line, i, cur, inQ, out) ==
  IF i > Len(line) THEN Append(out, cur)
  ELSE LET ch == line[i]
       IN IF ch = QUOTE THEN SplitPlainFrom(line, i + 1, cur, ~inQ, out)
          ELSE IF ch = COMMA /\ ~inQ
               THEN SplitPlainFrom(line, i + 1, <<>>, inQ, Append(out, cur))
               ELSE SplitPlainFrom(line, i + 1, Append(cur, ch), inQ, out)

RECURSIVE SplitFrom(_, _, _, _, _)
\* the loop of splitCsvLine from position i (1-based) with cur, inQ and out
SplitFrom(line, i, cur, inQ, out) ==
  IF i > Len(line) THEN Append(out, cur)
  ELSE LET ch == line[i]
       IN IF ch = QUOTE
          THEN IF inQ /\ i + 1 <= Len(line) /\ line[i + 1] = QUOTE
               THEN SplitFrom(line, i + 2, Append(cur, QUOTE), inQ, out)
               ELSE SplitFrom(line, i + 1, cur, ~inQ, out)
          ELSE IF ch = COMMA /\ ~inQ
               THEN SplitFrom(line, i + 1, <<>>, inQ, Append(out, cur))
               ELSE SplitFrom(line, i + 1, Append(cur, ch), inQ, out)

\* variant: see SplitPlainFrom
splitWithoutEscapes(line) == SplitPlainFrom(line, 1, <<>>, FALSE, <<>>)

splitCsvLine(line) == SplitFrom(line, 1, <<>>, FALSE, <<>>)

-----------------------------------------------------------------------------
(* The taxonomy loader *)

\* String.prototype.trim on the strings the model draws
Trim(s) ==
  CASE s = " USA " -> "USA" [] s = " usa" -> "usa" [] s = " " -> ""
    [] s = " Americas" -> "Americas" [] OTHER -> s

\* String.prototype.toUpperCase on the alpha-3 strings the model draws
ToUpperCase(s) ==
  CASE s = "usa" -> "USA" [] s = "cub" -> "CUB" [] s = "mex" -> "MEX" [] OTHER -> s

\* cols[idx(name)]?.trim(): undefined stays undefined
TrimCol(col) == IF col = NULL THEN NULL ELSE Trim(col)

RECURSIVE LoadTaxonomyUntilGap(_)
\* variant: the loop ends at the first row without an iso3 or a name
LoadTaxonomyUntilGap(rows) ==
  IF rows = <<>> THEN <<>>
  ELSE LET cols == rows[1]
           iso3 == IF cols.alpha3 = NULL THEN NULL ELSE ToUpperCase(Trim(cols.alpha3))
           name == TrimCol(cols.name)
           region == TrimCol(cols.region)
           subRegion == TrimCol(cols.subRegion)
       IN IF iso3 \in {NULL, ""} \/ name \in {NULL, ""}
          THEN <<>>
          ELSE <<[iso3 |-> iso3, name |-> name, region |-> region,
                  subRegion |-> subRegion,
                  seg |-> segmentOfCountry(region, subRegion)]>>
               \o LoadTaxonomyUntilGap(Tail(rows))

RECURSIVE LoadTaxonomy(_)
\* the loop over the data lines: one record per row with an iso3 and a name
LoadTaxonomy(rows) ==
  IF rows = <<>> THEN <<>>
  ELSE LET cols == rows[1]
           iso3 == IF cols.alpha3 = NULL THEN NULL ELSE ToUpperCase(Trim(cols.alpha3))
           name == TrimCol(cols.name)
           region == TrimCol(cols.region)
           subRegion == TrimCol(cols.subRegion)
       IN IF iso3 \in {NULL, ""} \/ name \in {NULL, ""}
          THEN LoadTaxonomy(Tail(rows))
          ELSE <<[iso3 |-> iso3, name |-> name, region |-> region,
                  subRegion |-> subRegion,
                  seg |-> segmentOfCountry(region, subRegion)]>>
               \o LoadTaxonomy(Tail(rows))

RECURSIVE LoadTaxonomyScript(_)
\* the same loop in estimate_factset_country_revenue.mjs: the columns as read
LoadTaxonomyScript(rows) ==
  IF rows = <<>> THEN <<>>
  ELSE LET cols == rows[1]
       IN IF cols.alpha3 \in {NULL, ""} \/ cols.name \in {NULL, ""}
          THEN LoadTaxonomyScript(Tail(rows))
          ELSE <<[iso3 |-> cols.alpha3, name |-> cols.name, region |-> cols.region,
                  subRegion |-> cols.subRegion,
                  seg |-> segmentOfCountry(cols.region, cols.subRegion)]>>
               \o LoadTaxonomyScript(Tail(rows))

-----------------------------------------------------------------------------
(* Steps 2 and 3: lookups and segment medians *)

FEEDS == {"gdp", "mcap", "credit", "gdppc", "net", "pop"}

EmptyBody == [isArray |-> FALSE, length |-> 0, rows |-> <<>>]

\* the six latestByIso3 calls
Lookups(bodies) == [f \in FEEDS |-> latestByIso3(bodies[f])]

RECURSIVE SegValsOfAll(_, _, _)
\* variant: one list of values for all segments, the country's segment not
\* looked at
SegValsOfAll(cs, seg, map) ==
  IF cs = <<>> THEN <<>>
  ELSE LET c == cs[1]
           v == ValueOf(map, c.iso3)
       IN IF c.seg # NULL /\ IsFinite(v)
          THEN <<v>> \o SegValsOfAll(Tail(cs), seg, map)
          ELSE SegValsOfAll(Tail(cs), seg, map)

RECURSIVE SegVals(_, _, _)
\* segVals[seg][indicator]: the finite values pushed for the countries of seg
SegVals(cs, seg, map) ==
  IF cs = <<>> THEN <<>>
  ELSE LET c == cs[1]
           v == ValueOf(map, c.iso3)
       IN IF c.seg = seg /\ IsFinite(v)
          THEN <<v>> \o SegVals(Tail(cs), seg, map)
          ELSE SegVals(Tail(cs), seg, map)

SegMedians(cs, lk) ==
  [seg \in SegNames |->
     [mcap |-> OrElse(median(SegVals(cs, seg, lk["mcap"])), Num(30)),
      credit |-> OrElse(median(SegVals(cs, seg, lk["credit"])), Num(50)),
      gdppc |-> OrElse(median(SegVals(cs, seg, lk["gdppc"])), Num(8000)),
      net |-> OrElse(median(SegVals(cs, seg, lk["net"])), Num(55))]]

-----------------------------------------------------------------------------
(* Step 4: scores *)

\* a ?? b: b replaces only undefined / null
Coalesce(a, b) == IF a.k \in {"undef", "null"} THEN b ELSE a

\* the composite score of a country whose GDP g is finite and positive
CompositeScore(iso3, g, mp, cp, gp, np) ==
  LET mcapFactor == Factor(clamp(mp, 0, 400), PowMcap(clamp(mp, 0, 400).x))
      creditFactor == Factor(clamp(cp, 0, 300), PowCredit(clamp(cp, 0, 300).x))
      wealthFactor == Factor(clamp(gp, 0, 80000), PowWealth(clamp(gp, 0, 80000).x))
      internetFactor == Factor(clamp(np, 0, 100), PowNet(clamp(np, 0, 100).x))
      base == FMul(FMul(FMul(FMul([nan |-> FALSE, f |-> PowGdp(g.x)], mcapFactor),
                                  creditFactor), wealthFactor), internetFactor)
  IN IF base.nan THEN NaNS
     ELSE [nan |-> FALSE,
           v |-> ((base.f + 50) \div 100) * HubMult(iso3) * OfficeMult(iso3)
                 * NearZeroMult(iso3),
           e |-> 0]

\* the body of the scoring loop for the country c (c.seg is not null)
ScoreOf(c, lk, med) ==
  LET g == ValueOf(lk["gdp"], c.iso3)
  IN IF ~IsFinite(g) \/ g.x <= 0 THEN FloorS
     ELSE CompositeScore(c.iso3, g,
            Coalesce(ValueOf(lk["mcap"], c.iso3), med[c.seg].mcap),
            Coalesce(ValueOf(lk["credit"], c.iso3), med[c.seg].credit),
            Coalesce(ValueOf(lk["gdppc"], c.iso3), med[c.seg].gdppc),
            Coalesce(ValueOf(lk["net"], c.iso3), med[c.seg].net))

\* the countries of a segment, in taxonomy order
InSegment(cs, seg) == SelectSeq(cs, LAMBDA c : c.seg = seg)

RECURSIVE SetScore(_, _, _)
\* scores[seg].set(iso3, s) for every country of the segment
SetScore(cs, lk, med) ==
  IF cs = <<>> THEN <<>>
  ELSE LET c == cs[Len(cs)]
           before == SetScore(SubSeq(cs, 1, Len(cs) - 1), lk, med)
       IN [k \in DOMAIN before \cup {c.iso3} |->
             IF k = c.iso3 THEN ScoreOf(c, lk, med) ELSE before[k]]

Scores(cs, lk, med) == [seg \in SegNames |-> SetScore(InSegment(cs, seg), lk, med)]

-----------------------------------------------------------------------------
(* Step 4, continued: allocation within each segment *)

RECURSIVE MapSumSeeded(_, _)
\* variant: the running sum starts from the 1e-9 floor instead of 0
MapSumSeeded(map, keys) ==
  IF keys = {} THEN FloorS
  ELSE LET k == CHOOSE k \in keys : TRUE
       IN ScoreAdd(map[k], MapSumSeeded(map, keys \ {k}))

RECURSIVE MapSum(_, _)
\* for (const v of map.values()) sum += v
MapSum(map, keys) ==
  IF keys = {} THEN ZeroS
  ELSE LET k == CHOOSE k \in keys : TRUE
       IN ScoreAdd(map[k], MapSum(map, keys \ {k}))

RECURSIVE SegmentRowsUnguarded(_, _, _, _)
\* variant: the share is s / sum whatever the sum is
SegmentRowsUnguarded(cs, seg, map, sum) ==
  IF cs = <<>> THEN <<>>
  ELSE LET c == cs[1]
           s == IF c.iso3 \in DOMAIN map THEN map[c.iso3] ELSE ZeroS
       IN <<[iso3 |-> c.iso3, country |-> c.name, segment |-> seg,
             revenueMillions |-> AnchorTimes(seg, [num |-> s, den |-> sum]),
             office |-> c.iso3 \in OFFICE_COUNTRIES,
             hub |-> c.iso3 \in DOMAIN HUB_MULT,
             nearZero |-> c.iso3 \in NEAR_ZERO]>>
          \o SegmentRowsUnguarded(Tail(cs), seg, map, sum)

RECURSIVE SegmentRowsUnnormalised(_, _, _, _)
\* variant: the score itself is taken for the share, not s / sum
SegmentRowsUnnormalised(cs, seg, map, sum) ==
  IF cs = <<>> THEN <<>>
  ELSE LET c == cs[1]
           s == IF c.iso3 \in DOMAIN map THEN map[c.iso3] ELSE ZeroS
           share == IF Positive(sum) THEN [num |-> s, den |-> OneS] ELSE ZeroFrac
       IN <<[iso3 |-> c.iso3, country |-> c.name, segment |-> seg,
             revenueMillions |-> AnchorTimes(seg, share),
             office |-> c.iso3 \in OFFICE_COUNTRIES,
             hub |-> c.iso3 \in DOMAIN HUB_MULT,
             nearZero |-> c.iso3 \in NEAR_ZERO]>>
          \o SegmentRowsUnnormalised(Tail(cs), seg, map, sum)

RECURSIVE SegmentRows(_, _, _, _)
\* the allocation rows pushed for the countries cs of the segment seg
SegmentRows(cs, seg, map, sum) ==
  IF cs = <<>> THEN <<>>
  ELSE LET c == cs[1]
           s == IF c.iso3 \in DOMAIN map THEN map[c.iso3] ELSE ZeroS
           share == IF Positive(sum) THEN [num |-> s, den |-> sum] ELSE ZeroFrac
       IN <<[iso3 |-> c.iso3, country |-> c.name, segment |-> seg,
             revenueMillions |-> AnchorTimes(seg, share),
             office |-> c.iso3 \in OFFICE_COUNTRIES,
             hub |-> c.iso3 \in DOMAIN HUB_MULT,
             nearZero |-> c.iso3 \in NEAR_ZERO]>>
          \o SegmentRows(Tail(cs), seg, map, sum)

RECURSIVE AllocationsFrom(_, _, _)
\* the loop over Object.keys(scores)
AllocationsFrom(i, cs, sc) ==
  IF i > Len(SEGMENTS) THEN <<>>
  ELSE LET seg == SEGMENTS[i]
           map == sc[seg]
           sum == MapSum(map, DOMAIN map)
       IN SegmentRows(InSegment(cs, seg), seg, map, sum)
          \o AllocationsFrom(i + 1, cs, sc)

Allocations(cs, sc) == AllocationsFrom(1, cs, sc)

\* variant: the reduction stops one row early
TotalRevenueButLast(rows) ==
  MoneySum([i \in 1..(Len(rows) - 1) |-> rows[i].revenueMillions])

\* allocations.reduce((a, b) => a + b.revenueMillions, 0)
TotalRevenue(rows) ==
  MoneySum([i \in 1..Len(rows) |-> rows[i].revenueMillions])

RECURSIVE IntensityLoopLast(_, _, _)
\* variant: maxShare is overwritten by every row's share
IntensityLoopLast(rows, total, acc) ==
  IF rows = <<>> THEN acc
  ELSE LET row == rows[1]
           isoKey == ToUpperCase(row.iso3)
           share == ShareOf(row.revenueMillions, total)
       IN IntensityLoopLast(Tail(rows), total,
            [map |-> [k \in DOMAIN acc.map \cup {isoKey} |->
                        IF k = isoKey THEN share ELSE acc.map[k]],
             max |-> share])

RECURSIVE IntensityLoop(_, _, _)
\* the loop filling iso3ToIntensity and maxShare: [map, max]
IntensityLoop(rows, total, acc) ==
  IF rows = <<>> THEN acc
  ELSE LET row == rows[1]
           isoKey == ToUpperCase(row.iso3)
           share == ShareOf(row.revenueMillions, total)
       IN IntensityLoop(Tail(rows), total,
            [map |-> [k \in DOMAIN acc.map \cup {isoKey} |->
                        IF k = isoKey THEN share ELSE acc.map[k]],
             max |-> IF ShareGreater(share, acc.max) THEN share ELSE acc.max])

-----------------------------------------------------------------------------
(* Output assembly *)

\* countryDetailsMap[key] = rec: a new key is appended, an old one overwritten
Upsert(details, rec) ==
  IF \E i \in 1..Len(details) : details[i].iso3 = rec.iso3
  THEN [i \in 1..Len(details) |->
          IF details[i].iso3 = rec.iso3 THEN rec ELSE details[i]]
  ELSE Append(details, rec)

\* pop.get(iso3)?.value ?? null
Population(lk, iso3) == Coalesce(ValueOf(lk["pop"], iso3), [k |-> "null", x |-> 0])

RegionOf(cs, iso3) ==
  IF \E i \in 1..Len(cs) : cs[i].iso3 = iso3
  THEN LET c == cs[CHOOSE i \in 1..Len(cs) :
                     cs[i].iso3 = iso3 /\ \A j \in (i + 1)..Len(cs) : cs[j].iso3 # iso3]
       IN IF c.region = NULL THEN "" ELSE c.region
  ELSE ""

RECURSIVE DetailsFromRows(_, _, _, _, _)
\* first pass: one entry per allocation row
DetailsFromRows(rows, cs, lk, total, details) ==
  IF rows = <<>> THEN details
  ELSE LET row == rows[1]
       IN DetailsFromRows(Tail(rows), cs, lk, total,
            Upsert(details,
              [iso3 |-> row.iso3, name |-> row.country,
               region |-> RegionOf(cs, row.iso3),
               revenueMillions |-> row.revenueMillions,
               share |-> ShareOf(row.revenueMillions, total),
               population |-> Population(lk, row.iso3),
               segment |-> row.segment,
               office |-> row.office, hub |-> row.hub, nearZero |-> row.nearZero]))

\* variant: no second pass
DetailsWithoutFill(cs, lk, acc) == acc

RECURSIVE DetailsFill(_, _, _)
\* second pass: every country of the list without an entry gets a zero entry
\* and iso3ToIntensity[c.iso3] ?? 0; acc is [details, map]
DetailsFill(cs, lk, acc) ==
  IF cs = <<>> THEN acc
  ELSE LET c == cs[1]
       IN IF \E i \in 1..Len(acc.details) : acc.details[i].iso3 = c.iso3
          THEN DetailsFill(Tail(cs), lk, acc)
          ELSE DetailsFill(Tail(cs), lk,
                 [map |-> [k \in DOMAIN acc.map \cup {c.iso3} |->
                             IF k \in DOMAIN acc.map THEN acc.map[k] ELSE ZeroShare],
                  details |->
                    Append(acc.details,
                      [iso3 |-> c.iso3, name |-> c.name,
                       region |-> IF c.region = NULL THEN "" ELSE c.region,
                       revenueMillions |-> ZeroMoney,
                       share |-> ZeroShare,
                       population |-> Population(lk, c.iso3),
                       segment |-> IF c.seg = NULL THEN "" ELSE c.seg,
                       office |-> c.iso3 \in OFFICE_COUNTRIES,
                       hub |-> c.iso3 \in DOMAIN HUB_MULT,
                       nearZero |-> c.iso3 \in NEAR_ZERO])])

-----------------------------------------------------------------------------
(* The feeds the retrievals may return *)

ISO3 == <<"USA", "CUB", "MEX">>

Obs(c, y, v) == [countryiso3code |-> c, date |-> Num(y), value |-> v]
RawNull == [k |-> "null", x |-> 0]
RawStr == [k |-> "str", x |-> 0]        \* a non-numeric string such as "n/a"
RawInf == [k |-> "inf", x |-> 0]        \* a literal such as 1e999

\* a World Bank body [meta, rows]
Body(rows) == [isArray |-> TRUE, length |-> 2, rows |-> rows]
\* the body of an error answer: [{message: ...}]
MessageBody == [isArray |-> TRUE, length |-> 1, rows |-> <<>>]

TaxRow(c, r) == [alpha3 |-> c, name |-> c, region |-> r[1], subRegion |-> r[2]]

REGIONS ==
  {<<"Americas", "Latin America and the Caribbean">>, <<"Asia", "Western Asia">>,
   <<"Asia", "Eastern Asia">>, <<"", "">>}

\* taxonomies of the data-rich specification: every country of ISO3 absent or
\* present with one of the region pairs, under distinct alpha-3 codes
RowChoices(c) ==
  {<<>>} \cup {<<TaxRow(c, r)>> :
                 r \in IF c = "USA" THEN {<<"Americas", "Northern America">>} ELSE REGIONS}

\* two lists in which one alpha-3 code comes twice
RepeatedCodes ==
  { <<TaxRow("CUB", <<"Americas", "Latin America and the Caribbean">>),
      TaxRow("CUB", <<"Americas", "Latin America and the Caribbean">>)>>,
    <<TaxRow("CUB", <<"Americas", "Latin America and the Caribbean">>),
      TaxRow("MEX", <<"Americas", "Latin America and the Caribbean">>),
      TaxRow("CUB", <<"", "">>)>> }

Taxonomies ==
  {a \o b \o d : a \in RowChoices("USA"), b \in RowChoices("CUB"), d \in RowChoices("MEX")}
  \cup RepeatedCodes

GdpBodies ==
  { Body(<<>>),
    Body(<<Obs("USA", 2023, Num(2000)), Obs("CUB", 2023, Num(1000)),
           Obs("MEX", 2023, Num(1000))>>),
    Body(<<Obs("USA", 2023, Num(1000)), Obs("CUB", 2022, Num(500)),
           Obs("CUB", 2023, RawNull), Obs("MEX", 2023, Num(2000))>>),
    Body(<<Obs("USA", 2023, Num(2000)), Obs("CUB", 2023, Num(0)),
           Obs("MEX", 2023, RawStr)>>),
    Body(<<Obs("USA", 2023, RawInf), Obs("CUB", 2023, Num(1000))>>) }

McapBodies ==
  { Body(<<>>),
    Body(<<Obs("USA", 2023, Num(100)), Obs("CUB", 2023, Num(100)),
           Obs("MEX", 2023, Num(100))>>),
    Body(<<Obs("USA", 2023, Num(200)), Obs("CUB", 2023, Num(100))>>),
    Body(<<Obs("USA", 2023, Num(200)), Obs("MEX", 2022, Num(100)),
           Obs("MEX", 2023, RawStr)>>),
    Body(<<Obs("USA", 2023, RawInf), Obs("CUB", 2023, Num(100)),
           Obs("MEX", 2023, Num(200))>>) }

CreditBodies ==
  { Body(<<>>),
    Body(<<Obs("USA", 2023, Num(80)), Obs("CUB", 2023, Num(40))>>),
    Body(<<Obs("USA", 2023, Num(500)), Obs("CUB", 2023, Num(40)),
           Obs("MEX", 2023, Num(40))>>) }

GdpPcBodies ==
  { Body(<<>>),
    Body(<<Obs("USA", 2023, Num(100000)), Obs("CUB", 2023, Num(20000))>>) }

NetBodies ==
  { Body(<<>>),
    Body(<<Obs("USA", 2023, Num(90)), Obs("CUB", 2023, Num(60))>>) }

PopBodies ==
  { Body(<<Obs("USA", 2023, Num(330)), Obs("CUB", 2023, Num(10))>>) }

\* what the concurrent specification draws: two taxonomies, one body per feed
SmallTaxonomies ==
  { <<TaxRow("USA", <<"Americas", "Northern America">>),
      TaxRow("CUB", <<"Americas", "Latin America and the Caribbean">>),
      TaxRow("MEX", <<"Asia", "Western Asia">>)>>,
    <<TaxRow("CUB", <<"Asia", "Eastern Asia">>), TaxRow("MEX", <<"", "">>)>> }

SmallBodies ==
  [gdp |-> {Body(<<Obs("USA", 2023, Num(2000)), Obs("CUB", 2023, Num(1000)),
                   Obs("MEX", 2023, Num(1000))>>)},
   mcap |-> {Body(<<Obs("USA", 2023, Num(200)), Obs("CUB", 2023, Num(100))>>)},
   credit |-> {Body(<<Obs("USA", 2023, Num(80)), Obs("CUB", 2023, Num(40))>>)},
   gdppc |-> {Body(<<Obs("USA", 2023, Num(100000)), Obs("CUB", 2023, Num(20000))>>)},
   net |-> {Body(<<Obs("USA", 2023, Num(90)), Obs("CUB", 2023, Num(60))>>)},
   pop |-> PopBodies]

-----------------------------------------------------------------------------
(* buildExposureData as a state machine *)

Blank ==
  /\ countries = <<>>
  /\ pending = {}
  /\ json = [f \in FEEDS |-> EmptyBody]
  /\ failedFeeds = {}
  /\ lookups = NONE
  /\ segMedian = NONE
  /\ scores = NONE
  /\ allocations = <<>>
  /\ totalRevenueMillions = ZeroMoney
  /\ iso3ToIntensity = <<>>
  /\ maxShare = ZeroShare
  /\ countryDetails = <<>>
  /\ payload = NONE

Init ==
  /\ pc = "start"
  /\ Blank
  /\ fnArg = NONE
  /\ fnRes = NONE

\* the invocation throws: its locals are gone, nothing is returned
Throw(feed) ==
  /\ pc' = "failed"
  /\ failedFeeds' = failedFeeds \cup {feed}
  /\ countries' = <<>>
  /\ pending' = {}
  /\ json' = [f \in FEEDS |-> EmptyBody]
  /\ lookups' = NONE
  /\ segMedian' = NONE
  /\ scores' = NONE
  /\ allocations' = <<>>
  /\ totalRevenueMillions' = ZeroMoney
  /\ iso3ToIntensity' = <<>>
  /\ maxShare' = ZeroShare
  /\ countryDetails' = <<>>
  /\ payload' = NONE
  /\ UNCHANGED <<fnArg, fnRes>>

\* 1) the ISO list is fetched and parsed; the six retrievals are issued
FetchIsoOk ==
  /\ pc = "start"
  /\ \E rows \in SmallTaxonomies : countries' = LoadTaxonomy(rows)
  /\ pending' = FEEDS
  /\ pc' = "fetching"
  /\ UNCHANGED <<json, failedFeeds, lookups, segMedian, scores, allocations,
                 totalRevenueMillions, iso3ToIntensity, maxShare, countryDetails,
                 payload, fnArg, fnRes>>

\* the ISO fetch rejects or answers with !isoRes.ok
FetchIsoFail ==
  /\ pc = "start"
  /\ Throw("iso")

\* variant: the retrievals share one result object, and the credit retrieval
\* starts it afresh, wiping the market-cap body when that one came first
FetchResolveShared ==
  /\ pc = "fetching"
  /\ \E f \in pending :
       /\ \E body \in SmallBodies[f] :
            json' = [g \in FEEDS |->
                       IF g = f THEN body
                       ELSE IF f = "credit" /\ g = "mcap" THEN EmptyBody
                       ELSE json[g]]
       /\ pending' = pending \ {f}
  /\ UNCHANGED <<pc, countries, failedFeeds, lookups, segMedian, scores,
                 allocations, totalRevenueMillions, iso3ToIntensity, maxShare,
                 countryDetails, payload, fnArg, fnRes>>

\* one retrieval of the Promise.all answers 2xx and its body parses
FetchResolve ==
  /\ pc = "fetching"
  /\ \E f \in pending :
       /\ \E body \in SmallBodies[f] : json' = [json EXCEPT ![f] = body]
       /\ pending' = pending \ {f}
  /\ UNCHANGED <<pc, countries, failedFeeds, lookups, segMedian, scores,
                 allocations, totalRevenueMillions, iso3ToIntensity, maxShare,
                 countryDetails, payload, fnArg, fnRes>>

\* one retrieval answers with an error status and a JSON body: r.ok is not
\* looked at, r.json() resolves
FetchHttpError ==
  /\ pc = "fetching"
  /\ \E f \in pending :
       /\ json' = [json EXCEPT ![f] = MessageBody]
       /\ pending' = pending \ {f}
       /\ failedFeeds' = failedFeeds \cup {f}
  /\ UNCHANGED <<pc, countries, lookups, segMedian, scores, allocations,
                 totalRevenueMillions, iso3ToIntensity, maxShare, countryDetails,
                 payload, fnArg, fnRes>>

\* one retrieval rejects (network failure, or a body that is not JSON)
FetchReject ==
  /\ pc = "fetching"
  /\ \E f \in pending : Throw(f)

\* variant: the reduction goes on after the first answer, not after all
ReduceAfterFirst ==
  /\ pc = "fetching"
  /\ pending # FEEDS
  /\ lookups' = Lookups(json)
  /\ segMedian' = SegMedians(countries, Lookups(json))
  /\ pc' = "score"
  /\ UNCHANGED <<countries, pending, json, failedFeeds, scores, allocations,
                 totalRevenueMillions, iso3ToIntensity, maxShare, countryDetails,
                 payload, fnArg, fnRes>>

\* 2, 3) all six resolved: the lookups and the segment medians
ReduceIndicators ==
  /\ pc = "fetching"
  /\ pending = {}
  /\ lookups' = Lookups(json)
  /\ segMedian' = SegMedians(countries, Lookups(json))
  /\ pc' = "score"
  /\ UNCHANGED <<countries, pending, json, failedFeeds, scores, allocations,
                 totalRevenueMillions, iso3ToIntensity, maxShare, countryDetails,
                 payload, fnArg, fnRes>>

\* 4) the scoring loop
ScoreCountries ==
  /\ pc = "score"
  /\ scores' = Scores(countries, lookups, segMedian)
  /\ pc' = "allocate"
  /\ UNCHANGED <<countries, pending, json, failedFeeds, lookups, segMedian,
                 allocations, totalRevenueMillions, iso3ToIntensity, maxShare,
                 countryDetails, payload, fnArg, fnRes>>

\* the allocation loop, the grand total, iso3ToIntensity and maxShare
Allocate ==
  /\ pc = "allocate"
  /\ LET rows == Allocations(countries, scores)
         total == TotalRevenue(rows)
         acc == IntensityLoop(rows, total, [map |-> <<>>, max |-> ZeroShare])
     IN /\ allocations' = rows
        /\ totalRevenueMillions' = total
        /\ iso3ToIntensity' = acc.map
        /\ maxShare' = acc.max
  /\ pc' = "assemble"
  /\ UNCHANGED <<countries, pending, json, failedFeeds, lookups, segMedian,
                 scores, countryDetails, payload, fnArg, fnRes>>

\* countryDetailsMap: the allocation rows, then every country without an entry
Assemble ==
  /\ pc = "assemble"
  /\ LET first == DetailsFromRows(allocations, countries, lookups,
                                  totalRevenueMillions, <<>>)
         acc == DetailsFill(countries, lookups,
                            [map |-> iso3ToIntensity, details |-> first])
     IN /\ countryDetails' = acc.details
        /\ iso3ToIntensity' = acc.map
  /\ pc' = "geo"
  /\ UNCHANGED <<countries, pending, json, failedFeeds, lookups, segMedian,
                 scores, allocations, totalRevenueMillions, maxShare, payload,
                 fnArg, fnRes>>

\* the geometry is fetched and the payload returned
FetchGeoOk ==
  /\ pc = "geo"
  /\ payload' = [k |-> "payload",
                 iso3ToIntensity |-> iso3ToIntensity,
                 countryDetails |-> countryDetails,
                 totalRevenueMillions |-> totalRevenueMillions,
                 maxShare |-> maxShare]
  /\ pc' = "done"
  /\ UNCHANGED <<countries, pending, json, failedFeeds, lookups, segMedian,
                 scores, allocations, totalRevenueMillions, iso3ToIntensity,
                 maxShare, countryDetails, fnArg, fnRes>>

\* the geometry fetch rejects
FetchGeoFail ==
  /\ pc = "geo"
  /\ Throw("geo")

Next ==
  \/ FetchIsoOk
  \/ FetchIsoFail
  \/ FetchResolve
  \/ FetchHttpError
  \/ FetchReject
  \/ ReduceIndicators
  \/ ScoreCountries
  \/ Allocate
  \/ Assemble
  \/ FetchGeoOk
  \/ FetchGeoFail

Spec == Init /\ [][Next]_vars

-----------------------------------------------------------------------------
(* The computation on its own: every taxonomy and every combination of bodies,
   from the point where the six retrievals have resolved *)

InitData ==
  /\ pc = "fetching"
  /\ \E rows \in Taxonomies : countries = LoadTaxonomy(rows)
  /\ pending = {}
  /\ json \in [gdp : GdpBodies, mcap : McapBodies, credit : CreditBodies,
               gdppc : GdpPcBodies, net : NetBodies, pop : PopBodies]
  /\ failedFeeds = {}
  /\ lookups = NONE
  /\ segMedian = NONE
  /\ scores = NONE
  /\ allocations = <<>>
  /\ totalRevenueMillions = ZeroMoney
  /\ iso3ToIntensity = <<>>
  /\ maxShare = ZeroShare
  /\ countryDetails = <<>>
  /\ payload = NONE
  /\ fnArg = NONE
  /\ fnRes = NONE

NextData ==
  \/ ReduceIndicators
  \/ ScoreCountries
  \/ Allocate
  \/ Assemble
  \/ FetchGeoOk

SpecData == InitData /\ [][NextData]_vars

-----------------------------------------------------------------------------
(* The pure functions on their own *)

MaxObs == 2

ObsCodes == {"USA", "CUB", ""}
ObsDates == {Num(2022), Num(2023), NaNV}          \* NaNV: a date that is no number
ObsValues == {Num(2), Num(4), RawNull, RawStr}

Observations ==
  {[countryiso3code |-> c, date |-> d, value |-> v] :
     c \in ObsCodes, d \in ObsDates, v \in ObsValues}

RowSeqs == UNION {[1..n -> Observations] : n \in 0..MaxObs}

InitLatest ==
  /\ pc = "call"
  /\ Blank
  /\ fnArg \in {Body(rows) : rows \in RowSeqs}
  /\ fnRes = NONE

ApplyLatest ==
  /\ pc = "call"
  /\ fnRes' = [k |-> "map", map |-> latestByIso3(fnArg)]
  /\ pc' = "returned"
  /\ UNCHANGED <<countries, pending, json, failedFeeds, lookups, segMedian, scores,
                 allocations, totalRevenueMillions, iso3ToIntensity, maxShare,
                 countryDetails, payload, fnArg>>

SpecLatest == InitLatest /\ [][ApplyLatest]_vars

RegionStrings ==
  {"Americas", "Europe", "Africa", "Asia", "Oceania", "", NULL, "americas", "ASIA",
   "Antarctica", "Western Asia"}
SubRegionStrings ==
  {"Western Asia", "Eastern Asia", "western asia", "", NULL, "Asia"}

InitSegment ==
  /\ pc = "call"
  /\ Blank
  /\ fnArg \in [region : RegionStrings, subRegion : SubRegionStrings]
  /\ fnRes = NONE

ApplySegment ==
  /\ pc = "call"
  /\ fnRes' = [k |-> "segment", seg |-> segmentOfCountry(fnArg.region, fnArg.subRegion)]
  /\ pc' = "returned"
  /\ UNCHANGED <<countries, pending, json, failedFeeds, lookups, segMedian, scores,
                 allocations, totalRevenueMillions, iso3ToIntensity, maxShare,
                 countryDetails, payload, fnArg>>

SpecSegment == InitSegment /\ [][ApplySegment]_vars

\* The loader on its own: up to MaxRows data rows, a column missing, empty, blank,
\* padded or in lower case

MaxRows == 2

RawAlpha3 == {NULL, "", " ", "USA", " usa"}
RawNames == {NULL, " ", "N"}
RawRegions == {<<"Americas", NULL>>, <<" Americas", "">>, <<"Asia", "Western Asia">>}

RawRows ==
  {[alpha3 |-> a, name |-> n, region |-> r[1], subRegion |-> r[2]] :
     a \in RawAlpha3, n \in RawNames, r \in RawRegions}

InitLoader ==
  /\ pc = "call"
  /\ Blank
  /\ \E n \in 0..MaxRows : fnArg \in [1..n -> RawRows]
  /\ fnRes = NONE

ApplyLoader ==
  /\ pc = "call"
  /\ fnRes' = [k |-> "countries", out |-> LoadTaxonomy(fnArg)]
  /\ pc' = "returned"
  /\ UNCHANGED <<countries, pending, json, failedFeeds, lookups, segMedian, scores,
                 allocations, totalRevenueMillions, iso3ToIntensity, maxShare,
                 countryDetails, payload, fnArg>>

ApplyLoaderScript ==
  /\ pc = "call"
  /\ fnRes' = [k |-> "script", out |-> LoadTaxonomyScript(fnArg)]
  /\ pc' = "returned"
  /\ UNCHANGED <<countries, pending, json, failedFeeds, lookups, segMedian, scores,
                 allocations, totalRevenueMillions, iso3ToIntensity, maxShare,
                 countryDetails, payload, fnArg>>

SpecLoader == InitLoader /\ [][ApplyLoader \/ ApplyLoaderScript]_vars

\* The two implementations side by side: buildExposureData up to its allocation
\* rows and the export script estimate_factset_country_revenue.mjs, on one
\* taxonomy text and one answer per retrieval

INDICATORS == FEEDS \ {"pop"}

\* the body [meta, null] the World Bank sends when it has no observation
NullRowsBody == [isArray |-> TRUE, length |-> 2, rows |-> <<>>, nullRows |-> TRUE]

Answer(body) == [k |-> "ok", body |-> body]
\* an error status with the JSON body [{message: ...}]
StatusAnswer == [k |-> "status", body |-> MessageBody]

Threw == [k |-> "threw"]

\* buildExposureData: the loader, the six retrievals (r.ok is not looked at),
\* the lookups, the medians, the scores and the allocation rows; the for loop
\* of latestByIso3 throws on rows that are null
CoreAllocations(rows, answers) ==
  LET bodies == [f \in FEEDS |-> answers[f].body]
      cs == LoadTaxonomy(rows)
  IN IF \E f \in FEEDS : bodies[f] = NullRowsBody
     THEN Threw
     ELSE LET lk == Lookups(bodies)
              med == SegMedians(cs, lk)
          IN [k |-> "rows", rows |-> Allocations(cs, Scores(cs, lk, med))]

\* latestByIso3 of the script: wbJson?.[1] ?? []
latestByIso3Script(wbJson) ==
  LatestLoop(IF wbJson.length > 1 /\ wbJson # NullRowsBody THEN wbJson.rows ELSE <<>>,
             <<>>)

\* a row as the script pushes it: the flags are 1 or 0
ScriptRow(r) ==
  [iso3 |-> r.iso3, country |-> r.country, segment |-> r.segment,
   revenue_usd_millions_est |-> r.revenueMillions,
   office |-> IF r.office THEN 1 ELSE 0,
   hub |-> IF r.hub THEN 1 ELSE 0,
   near_zero |-> IF r.nearZero THEN 1 ELSE 0]

\* a.segment.localeCompare(b.segment) orders AMERICAS, APAC, EMEA
SegRank(seg) == CASE seg = "AMERICAS" -> 1 [] seg = "APAC" -> 2 [] seg = "EMEA" -> 3

\* the comparator of allocations.sort is negative for (a, b)
SortsBefore(a, b) ==
  IF a.segment = b.segment
  THEN MoneyLess(b.revenue_usd_millions_est, a.revenue_usd_millions_est)
  ELSE SegRank(a.segment) < SegRank(b.segment)

RECURSIVE InsertRow(_, _)
InsertRow(x, s) ==
  IF s = <<>> THEN <<x>>
  ELSE IF SortsBefore(x, s[1]) THEN <<x>> \o s
  ELSE <<s[1]>> \o InsertRow(x, Tail(s))

RECURSIVE SortAllocations(_)
\* allocations.sort(...), a stable sort
SortAllocations(rows) ==
  IF rows = <<>> THEN <<>>
  ELSE InsertRow(rows[Len(rows)], SortAllocations(SubSeq(rows, 1, Len(rows) - 1)))

\* the script: the loader without trim, fetchJson throwing on an error status,
\* then the same medians, scores and allocation loop, and the sort
ScriptAllocations(rows, answers) ==
  IF \E f \in INDICATORS : answers[f].k # "ok" THEN Threw
  ELSE LET cs == LoadTaxonomyScript(rows)
           lk == [f \in INDICATORS |-> latestByIso3Script(answers[f].body)]
           med == SegMedians(cs, lk)
           pushed == Allocations(cs, Scores(cs, lk, med))
       IN [k |-> "rows",
           rows |-> SortAllocations([i \in 1..Len(pushed) |-> ScriptRow(pushed[i])])]

\* data rows of the taxonomy text: as published, padded, in lower case, with a
\* blank name
TextRows ==
  { [alpha3 |-> "USA", name |-> "N", region |-> "Americas",
     subRegion |-> "Northern America"],
    [alpha3 |-> "CUB", name |-> "N", region |-> "Americas",
     subRegion |-> "Latin America and the Caribbean"],
    [alpha3 |-> "MEX", name |-> "N", region |-> "Asia", subRegion |-> "Eastern Asia"],
    [alpha3 |-> " usa", name |-> "N", region |-> "Americas",
     subRegion |-> "Northern America"],
    [alpha3 |-> "CUB", name |-> "N", region |-> " Americas",
     subRegion |-> "Latin America and the Caribbean"],
    [alpha3 |-> "MEX", name |-> " ", region |-> "Americas",
     subRegion |-> "Latin America and the Caribbean"] }

MaxTextRows == 2

TextAnswers ==
  [gdp : {Answer(b) : b \in SmallBodies["gdp"]} \cup {StatusAnswer, Answer(NullRowsBody)},
   mcap : {Answer(b) : b \in SmallBodies["mcap"]} \cup {Answer(Body(<<>>))},
   credit : {Answer(b) : b \in SmallBodies["credit"]},
   gdppc : {Answer(b) : b \in SmallBodies["gdppc"]} \cup {StatusAnswer},
   net : {Answer(b) : b \in SmallBodies["net"]},
   pop : {Answer(b) : b \in PopBodies}]

InitBoth ==
  /\ pc = "call"
  /\ Blank
  /\ \E n \in 0..MaxTextRows :
       \E rows \in [1..n -> TextRows] :
         \E answers \in TextAnswers : fnArg = [rows |-> rows, answers |-> answers]
  /\ fnRes = [k |-> "runs", core |-> NONE, script |-> NONE]

RunCore ==
  /\ pc = "call"
  /\ fnRes.core = NONE
  /\ fnRes' = [fnRes EXCEPT !.core = CoreAllocations(fnArg.rows, fnArg.answers)]
  /\ pc' = IF fnRes.script = NONE THEN "call" ELSE "returned"
  /\ UNCHANGED <<countries, pending, json, failedFeeds, lookups, segMedian, scores,
                 allocations, totalRevenueMillions, iso3ToIntensity, maxShare,
                 countryDetails, payload, fnArg>>

RunScript ==
  /\ pc = "call"
  /\ fnRes.script = NONE
  /\ fnRes' = [fnRes EXCEPT !.script = ScriptAllocations(fnArg.rows, fnArg.answers)]
  /\ pc' = IF fnRes.core = NONE THEN "call" ELSE "returned"
  /\ UNCHANGED <<countries, pending, json, failedFeeds, lookups, segMedian, scores,
                 allocations, totalRevenueMillions, iso3ToIntensity, maxShare,
                 countryDetails, payload, fnArg>>

SpecBoth == InitBoth /\ [][RunCore \/ RunScript]_vars

\* One segment with three countries outside the override tables, each with a GDP
\* of 500, 1000 or 2000 or none, and possibly the USA or Cuba; every other
\* indicator has one value for all countries or no observation at all

PlainCodes == <<"ARG", "MEX", "PER">>
PlainGdp == {UNDEF, Num(500), Num(1000), Num(2000)}
FourthCountry == {<<>>, <<[code |-> "USA", gdp |-> Num(2000)]>>,
                  <<[code |-> "CUB", gdp |-> Num(1000)]>>}

\* the body with the value v for every code of cs, or the empty one
SameForAll(cs, v) ==
  IF v = UNDEF THEN Body(<<>>) ELSE Body([i \in 1..Len(cs) |-> Obs(cs[i].code, 2023, v)])

\* the GDP body: one observation for every country that has a GDP
GdpBodyOf(cs) ==
  Body([i \in 1..Len(SelectSeq(cs, LAMBDA c : c.gdp # UNDEF)) |->
          LET c == SelectSeq(cs, LAMBDA d : d.gdp # UNDEF)[i]
          IN Obs(c.code, 2023, c.gdp)])

InitProportion ==
  /\ pc = "fetching"
  /\ \E g \in [1..Len(PlainCodes) -> PlainGdp], extra \in FourthCountry,
        mp \in {UNDEF, Num(100), Num(200)}, cp \in {UNDEF, Num(40)},
        gp \in {UNDEF, Num(20000)}, np \in {UNDEF, Num(60)} :
       LET cs == [i \in 1..Len(PlainCodes) |-> [code |-> PlainCodes[i], gdp |-> g[i]]]
                 \o extra
       IN /\ countries =
               LoadTaxonomy([i \in 1..Len(cs) |->
                  TaxRow(cs[i].code, <<"Americas", "Latin America and the Caribbean">>)])
          /\ json = [gdp |-> GdpBodyOf(cs), mcap |-> SameForAll(cs, mp),
                     credit |-> SameForAll(cs, cp), gdppc |-> SameForAll(cs, gp),
                     net |-> SameForAll(cs, np),
                     pop |-> CHOOSE b \in PopBodies : TRUE]
  /\ pending = {}
  /\ failedFeeds = {}
  /\ lookups = NONE
  /\ segMedian = NONE
  /\ scores = NONE
  /\ allocations = <<>>
  /\ totalRevenueMillions = ZeroMoney
  /\ iso3ToIntensity = <<>>
  /\ maxShare = ZeroShare
  /\ countryDetails = <<>>
  /\ payload = NONE
  /\ fnArg = NONE
  /\ fnRes = NONE

SpecProportion == InitProportion /\ [][NextData]_vars

\* the segment medians on their own: MedianCountries countries, each in
\* AMERICAS, in EMEA or in no segment, each with one value of the indicator or
\* none

MedianCountries == 3

MedianCodes == <<"USA", "CUB", "MEX", "IRN", "BRA">>
MedianRegions == {<<"Americas", "">>, <<"Europe", "">>, <<"", "">>}
MedianValues == {UNDEF, Num(10), Num(20), Num(30), NaNV, InfV}

\* the lookup holding vals[i] for the i-th code, no entry where it is undefined
LookupOf(vals) ==
  [c \in {MedianCodes[i] : i \in {j \in DOMAIN vals : vals[j] # UNDEF}} |->
     [year |-> 2023,
      value |-> vals[CHOOSE i \in DOMAIN vals : MedianCodes[i] = c]]]

InitMedian ==
  /\ pc = "call"
  /\ Blank
  /\ \E regs \in [1..MedianCountries -> MedianRegions] :
       \E vals \in [1..MedianCountries -> MedianValues] :
         fnArg = [countries |->
                    LoadTaxonomy([i \in 1..MedianCountries |->
                                    TaxRow(MedianCodes[i], regs[i])]),
                  map |-> LookupOf(vals)]
  /\ fnRes = NONE

ApplyMedian ==
  /\ pc = "call"
  /\ fnRes' = [k |-> "medians",
               med |-> SegMedians(fnArg.countries, [f \in FEEDS |-> fnArg.map])]
  /\ pc' = "returned"
  /\ UNCHANGED <<countries, pending, json, failedFeeds, lookups, segMedian, scores,
                 allocations, totalRevenueMillions, iso3ToIntensity, maxShare,
                 countryDetails, payload, fnArg>>

SpecMedian == InitMedian /\ [][ApplyMedian]_vars

\* splitCsvLine on its own: every line of up to MaxLine characters, and the
\* lines written from up to MaxFields fields of up to MaxFieldLen characters by
\* the CSV quoting rules, with the two lines of the specification's scenario

MaxLine == 5
MaxFields == 2
MaxFieldLen == 2

CsvChars == {"a", COMMA, QUOTE}

CharSeqs(n) == UNION {[1..m -> CsvChars] : m \in 0..n}

RECURSIVE Doubled(_)
\* the field with every quote written twice
Doubled(field) ==
  IF field = <<>> THEN <<>>
  ELSE (IF field[1] = QUOTE THEN <<QUOTE, QUOTE>> ELSE <<field[1]>>)
       \o Doubled(Tail(field))

\* a field as CSV writes it: as it is, or between quotes with its quotes doubled
Written(field, quoted) ==
  IF quoted THEN <<QUOTE>> \o Doubled(field) \o <<QUOTE>> ELSE field

RECURSIVE WrittenLine(_, _)
WrittenLine(fields, quoted) ==
  IF Len(fields) = 1 THEN Written(fields[1], quoted[1])
  ELSE Written(fields[1], quoted[1]) \o <<COMMA>>
       \o WrittenLine(Tail(fields), Tail(quoted))

\* a field with a comma or a quote in it has to be written between quotes
MustQuote(field) == \E i \in 1..Len(field) : field[i] \in {COMMA, QUOTE}

ScenarioLine ==
  <<"U", "S", "A", COMMA, QUOTE, "S", "m", "i", "t", "h", COMMA, " ", "J", "o",
    "h", "n", QUOTE, COMMA, "1">>
ScenarioFields ==
  << <<"U", "S", "A">>, <<"S", "m", "i", "t", "h", COMMA, " ", "J", "o", "h", "n">>,
     <<"1">> >>
ScenarioQuoted ==
  <<QUOTE, "H", "e", " ", "s", "a", "i", "d", " ", QUOTE, QUOTE, "h", "i", QUOTE,
    QUOTE, QUOTE>>
ScenarioQuotedField ==
  <<"H", "e", " ", "s", "a", "i", "d", " ", QUOTE, "h", "i", QUOTE>>

Lines == CharSeqs(MaxLine)
FieldTexts == CharSeqs(MaxFieldLen)

InitCsv ==
  /\ pc = "call"
  /\ Blank
  /\ \/ \E l \in Lines : fnArg = [line |-> l, written |-> FALSE, fields |-> <<>>]
     \/ \E k \in 1..MaxFields :
          \E fs \in [1..k -> FieldTexts] :
            \E q \in [1..k -> BOOLEAN] :
              /\ \A i \in 1..k : MustQuote(fs[i]) => q[i]
              /\ fnArg = [line |-> WrittenLine(fs, q), written |-> TRUE, fields |-> fs]
     \/ fnArg = [line |-> ScenarioLine, written |-> TRUE, fields |-> ScenarioFields]
     \/ fnArg = [line |-> ScenarioQuoted, written |-> TRUE,
                 fields |-> <<ScenarioQuotedField>>]
  /\ fnRes = NONE

ApplyCsv ==
  /\ pc = "call"
  /\ fnRes' = [k |-> "fields", out |-> splitCsvLine(fnArg.line)]
  /\ pc' = "returned"
  /\ UNCHANGED <<countries, pending, json, failedFeeds, lookups, segMedian, scores,
                 allocations, totalRevenueMillions, iso3ToIntensity, maxShare,
                 countryDetails, payload, fnArg>>

SpecCsv == InitCsv /\ [][ApplyCsv]_vars

-----------------------------------------------------------------------------
(* Properties *)

Scored == pc \in {"allocate", "assemble", "geo", "done"}
Allocated == pc \in {"assemble", "geo", "done"}

OneFrac == [num |-> OneS, den |-> OneS]
Anchor(seg) == AnchorTimes(seg, OneFrac)

\* the alpha-3 codes of the country list are pairwise distinct
DistinctCodes ==
  \A i, j \in 1..Len(countries) : countries[i].iso3 = countries[j].iso3 => i = j

RowsOf(seg) == SelectSeq(allocations, LAMBDA r : r.segment = seg)
SegRevenue(seg) ==
  MoneySum([i \in 1..Len(RowsOf(seg)) |-> RowsOf(seg)[i].revenueMillions])

\* the segment has a country and every score in it is a number, which is when
\* the sum of its scores is a positive number
Live(seg) ==
  /\ DOMAIN scores[seg] # {}
  /\ \A k \in DOMAIN scores[seg] : ~scores[seg][k].nan

ValidGdp(iso3) ==
  LET g == ValueOf(lookups["gdp"], iso3) IN IsFinite(g) /\ g.x > 0

\* C1 as stated: for every segment, the revenueMillions of the segment's
\* allocation rows add up to the segment's anchor total.
C1_EverySegmentSumsToAnchor ==
  Allocated => \A seg \in SegNames : MoneyEq(SegRevenue(seg), Anchor(seg))

\* C1 amended: over a country list with distinct alpha-3 codes, the
\* revenueMillions of a segment's rows add up to the segment's anchor total when
\* the segment has a country and all its scores are numbers, and to 0 otherwise.
C1_SegmentSum ==
  Allocated /\ DistinctCodes =>
    \A seg \in SegNames :
      IF Live(seg) THEN MoneyEq(SegRevenue(seg), Anchor(seg))
      ELSE MoneyEq(SegRevenue(seg), ZeroMoney)

C1_Witness ==
  /\ pc = "done"
  /\ DistinctCodes
  /\ \E seg \in SegNames :
       /\ Live(seg)
       /\ Cardinality(DOMAIN scores[seg]) >= 2
       /\ MoneyEq(SegRevenue(seg), Anchor(seg))
  /\ \E seg \in SegNames : ~Live(seg) /\ MoneyEq(SegRevenue(seg), ZeroMoney)

DetailRevenue(details) ==
  MoneySum([i \in 1..Len(details) |-> details[i].revenueMillions])

\* C2 as stated: the grand total of the payload is the sum of the three anchor
\* totals.
C2_TotalIsSumOfThreeAnchors ==
  pc = "done" =>
    MoneyEq(payload.totalRevenueMillions, [g \in SegNames |-> OneFrac])

\* C2 amended: over a country list with distinct alpha-3 codes, the grand total
\* of the payload is the sum of revenueMillions over the output countries and
\* equals the sum of the anchor totals of the segments that have a country and
\* only scores that are numbers.
C2_GrandTotal ==
  pc = "done" /\ DistinctCodes =>
    /\ MoneyEq(payload.totalRevenueMillions,
               [g \in SegNames |-> IF Live(g) THEN OneFrac ELSE ZeroFrac])
    /\ MoneyEq(payload.totalRevenueMillions, DetailRevenue(payload.countryDetails))

C2_Witness ==
  /\ pc = "done"
  /\ DistinctCodes
  /\ \A g \in SegNames : Live(g)
  /\ MoneyEq(payload.totalRevenueMillions, [g \in SegNames |-> OneFrac])

\* share is revenueMillions / total: the quotient itself, or 0 where the
\* revenue is 0 (the code reports 0 too when the total is 0)
ShareIsQuotient(sh, rev, total) ==
  \/ ~sh.zero /\ MoneyPositive(total) /\ sh.num = rev /\ sh.den = total
  \/ sh.zero /\ ~MoneyPositive(rev)

InUnitInterval(sh) == sh.zero \/ MoneyLeq(sh.num, sh.den)

\* C3: every output country's share is its revenueMillions divided by the grand
\* total (share * total = revenueMillions), lies between 0 and 1, and is the
\* value iso3ToIntensity holds for the country.
C3_ShareOfTotal ==
  pc = "done" =>
    \A i \in 1..Len(payload.countryDetails) :
      LET d == payload.countryDetails[i]
      IN /\ ShareIsQuotient(d.share, d.revenueMillions, payload.totalRevenueMillions)
         /\ InUnitInterval(d.share)
         /\ d.iso3 \in DOMAIN payload.iso3ToIntensity
         /\ payload.iso3ToIntensity[d.iso3] = d.share

C3_Witness ==
  /\ pc = "done"
  /\ \E i, j \in 1..Len(payload.countryDetails) :
       LET d == payload.countryDetails[i]
           z == payload.countryDetails[j]
       IN /\ ~ShareIsZero(d.share)
          /\ d.share.num # d.share.den
          /\ MoneyLeq(d.share.num, d.share.den)
          /\ ShareIsZero(z.share)

\* C4: every country the taxonomy loader kept has exactly one row in
\* countryDetails and every row is such a country; with distinct alpha-3 codes
\* the row carries the country's name and segment ("" for none).
C4_EveryCountryOnce ==
  pc = "done" =>
    LET details == payload.countryDetails
    IN /\ \A i \in 1..Len(countries) :
            Cardinality({j \in 1..Len(details) :
                           details[j].iso3 = countries[i].iso3}) = 1
       /\ \A j \in 1..Len(details) :
            \E i \in 1..Len(countries) : countries[i].iso3 = details[j].iso3
       /\ DistinctCodes =>
            \A i \in 1..Len(countries) :
              \E j \in 1..Len(details) :
                /\ details[j].iso3 = countries[i].iso3
                /\ details[j].name = countries[i].name
                /\ details[j].segment =
                     IF countries[i].seg = NULL THEN "" ELSE countries[i].seg

C4_Witness ==
  /\ pc = "done"
  /\ Len(payload.countryDetails) = Len(countries)
  /\ \E i, j \in 1..Len(countries) :
       /\ countries[i].seg = NULL
       /\ countries[j].seg # NULL
       /\ \E m \in 1..Len(payload.countryDetails) :
            /\ payload.countryDetails[m].iso3 = countries[i].iso3
            /\ payload.countryDetails[m].segment = ""

SameIndicators(a, b) ==
  \A f \in {"gdp", "mcap", "credit", "gdppc", "net"} :
    ValueOf(lookups[f], a) = ValueOf(lookups[f], b)

\* pairs of allocation rows of one segment, the first on the near-zero list and
\* the second not, alike in indicators, hub and office status
NearZeroPairs ==
  {p \in (1..Len(allocations)) \X (1..Len(allocations)) :
     LET a == allocations[p[1]]
         b == allocations[p[2]]
     IN /\ a.segment = b.segment
        /\ a.nearZero /\ ~b.nearZero
        /\ a.hub = b.hub /\ a.office = b.office
        /\ SameIndicators(a.iso3, b.iso3)}

RevOf(row) == row.revenueMillions[row.segment]

\* x < y for revenues of one segment
RevLess(x, y) ==
  /\ Positive(y.num)
  /\ IsZeroFrac(x) \/ (x.den = y.den /\ ScoreLess(x.num, y.num))

Times100(s) == [nan |-> s.nan, v |-> 100 * s.v, e |-> 100 * s.e]

\* 100 * x = y for revenues of one segment
OnePercent(x, y) ==
  \/ IsZeroFrac(x) /\ IsZeroFrac(y)
  \/ x.den = y.den /\ Times100(x.num) = y.num

\* C5 as stated: a country on the near-zero list gets strictly less revenue
\* than a country of the same segment with the same indicators, hub and office
\* status that is not on the list.
C5_NearZeroStrictlySmaller ==
  Allocated =>
    \A p \in NearZeroPairs :
      RevLess(RevOf(allocations[p[1]]), RevOf(allocations[p[2]]))

\* C5 amended: when the GDP of the two countries is finite and positive, the
\* near-zero country's revenue is one hundredth of the other's, and strictly
\* smaller when the segment's scores are all numbers (else both are 0); when
\* the GDP is missing, non-finite or <= 0 the two revenues are equal.
C5_NearZeroOnePercent ==
  Allocated =>
    \A p \in NearZeroPairs :
      LET a == allocations[p[1]]
          b == allocations[p[2]]
      IN IF ValidGdp(a.iso3)
         THEN /\ OnePercent(RevOf(a), RevOf(b))
              /\ Live(a.segment) => RevLess(RevOf(a), RevOf(b))
         ELSE RevOf(a) = RevOf(b)

C5_Witness ==
  /\ pc = "done"
  /\ \E p \in NearZeroPairs :
       /\ ValidGdp(allocations[p[1]].iso3)
       /\ Live(allocations[p[1]].segment)
       /\ RevLess(RevOf(allocations[p[1]]), RevOf(allocations[p[2]]))

\* C6 as stated: when a retrieval of the taxonomy, of an indicator or of the
\* population answered with an error status or did not answer, the invocation
\* returns no payload.
C6_FailureMeansNoPayload ==
  failedFeeds # {} => payload = NONE

\* missing or non-finite: replaced by the segment median
Resolve(v, med) == IF IsFinite(v) THEN v ELSE med

\* C7 as stated: the score of a country with a finite positive GDP is computed
\* with each of market cap, credit, GDP per capita and internet use that is
\* missing or non-finite replaced by the segment median.
C7_FallbackToSegmentMedian ==
  Scored =>
    \A i \in 1..Len(countries) :
      LET c == countries[i]
      IN c.seg # NULL /\ ValidGdp(c.iso3) =>
           scores[c.seg][c.iso3] =
             CompositeScore(c.iso3, ValueOf(lookups["gdp"], c.iso3),
               Resolve(ValueOf(lookups["mcap"], c.iso3), segMedian[c.seg].mcap),
               Resolve(ValueOf(lookups["credit"], c.iso3), segMedian[c.seg].credit),
               Resolve(ValueOf(lookups["gdppc"], c.iso3), segMedian[c.seg].gdppc),
               Resolve(ValueOf(lookups["net"], c.iso3), segMedian[c.seg].net))

\* the observations of the code c with a finite year and a numeric value
ValidObs(rows, c) ==
  {i \in 1..Len(rows) :
     /\ rows[i].countryiso3code = c
     /\ IsFinite(rows[i].date)
     /\ rows[i].value.k = "num"}

\* C8 as stated: latestByIso3 maps a code to the value observed at the
\* greatest year among its observations with a code, a finite year and a
\* non-null numeric value, and has no entry for a code without such an
\* observation.
C8_LatestValidObservation ==
  pc = "returned" /\ fnRes.k = "map" =>
    LET rows == fnArg.rows
        res == fnRes.map
    IN /\ "" \notin DOMAIN res
       /\ \A c \in ObsCodes \ {""} :
            IF ValidObs(rows, c) = {} THEN c \notin DOMAIN res
            ELSE /\ c \in DOMAIN res
                 /\ \E i \in ValidObs(rows, c) :
                      /\ \A j \in ValidObs(rows, c) : rows[j].date.x <= rows[i].date.x
                      /\ res[c].year = rows[i].date.x
                      /\ res[c].value = rows[i].value

\* C9 as stated: every country with a segment has a strictly positive score in
\* its segment's map; with a GDP that is missing or <= 0 the score is 1e-9 and
\* the country's revenue is positive.
C9_PositiveScore ==
  Scored =>
    \A i \in 1..Len(countries) :
      LET c == countries[i]
      IN c.seg # NULL =>
           /\ c.iso3 \in DOMAIN scores[c.seg]
           /\ Positive(scores[c.seg][c.iso3])
           /\ ~ValidGdp(c.iso3) =>
                /\ scores[c.seg][c.iso3] = FloorS
                /\ Allocated =>
                     \A j \in 1..Len(allocations) :
                       allocations[j].iso3 = c.iso3 /\ allocations[j].segment = c.seg
                         => MoneyPositive(allocations[j].revenueMillions)

\* the mapping as the specification words it
ExpectedSegment(region, subRegion) ==
  CASE region = "Americas" -> "AMERICAS"
    [] region \in {"Europe", "Africa"} -> "EMEA"
    [] region = "Asia" /\ subRegion = "Western Asia" -> "EMEA"
    [] region = "Asia" -> "APAC"
    [] region = "Oceania" -> "APAC"
    [] OTHER -> NULL

\* C10: segmentOfCountry returns AMERICAS for Americas, EMEA for Europe, Africa
\* and Asia with sub-region Western Asia, APAC for the rest of Asia and for
\* Oceania, and null for every other region, a missing one included.
C10_SegmentMapping ==
  pc = "returned" /\ fnRes.k = "segment" =>
    fnRes.seg = ExpectedSegment(fnArg.region, fnArg.subRegion)

C10_Witness ==
  /\ pc = "returned"
  /\ fnRes.k = "segment"
  /\ fnArg.region = "Asia"
  /\ fnArg.subRegion = "Western Asia"
  /\ fnRes.seg = "EMEA"

\* the rows of countryDetails for the code iso3
DetailsOf(iso3) ==
  {j \in 1..Len(payload.countryDetails) : payload.countryDetails[j].iso3 = iso3}

PastBarrier ==
  \/ pc \in {"score", "allocate", "assemble", "geo", "done"}
  \/ lookups # NONE
  \/ segMedian # NONE
  \/ scores # NONE

\* C12: in every order of completion of the six concurrent retrievals, the
\* lookups, the fallback medians and the scores are computed only when no
\* retrieval is pending and every retrieval has delivered its body.
C12_Barrier ==
  PastBarrier => pending = {} /\ \A f \in FEEDS : json[f] # EmptyBody

C12_Witness ==
  /\ pc = "score"
  /\ segMedian # NONE
  /\ pending = {}
  /\ \A f \in FEEDS : json[f] # EmptyBody

\* the countries of the segment with a finite value, and their values
FiniteIn(seg) ==
  {i \in 1..Len(fnArg.countries) :
     /\ fnArg.countries[i].seg = seg
     /\ IsFinite(ValueOf(fnArg.map, fnArg.countries[i].iso3))}
FiniteValue(i) == ValueOf(fnArg.map, fnArg.countries[i].iso3).x

\* the k-th smallest value among the countries S, by counting
KthSmallest(S, k) ==
  CHOOSE v \in {FiniteValue(i) : i \in S} :
    /\ Cardinality({i \in S : FiniteValue(i) < v}) < k
    /\ k <= Cardinality({i \in S : FiniteValue(i) <= v})

ExpectedMedian(S, fallback) ==
  LET n == Cardinality(S)
  IN IF n = 0 THEN fallback
     ELSE IF n % 2 = 1 THEN KthSmallest(S, (n + 1) \div 2)
     ELSE (KthSmallest(S, n \div 2) + KthSmallest(S, n \div 2 + 1)) \div 2

\* the finite values of the segment, as a bag
ValueBag(seg) ==
  [v \in {FiniteValue(i) : i \in FiniteIn(seg)} |->
     Cardinality({i \in FiniteIn(seg) : FiniteValue(i) = v})]

\* C13: for each segment and each of the four indicators the segment median is
\* the middle one of the finite values of the segment's countries for an odd
\* count and the mean of the two middle ones for an even count (10, 20, 30
\* gives 20; 10, 20 gives 15), and 30, 50, 8000, 55 for market cap, credit, GDP
\* per capita, internet when the segment has no finite value.
C13_SegmentMedian ==
  pc = "returned" /\ fnRes.k = "medians" =>
    \A seg \in SegNames :
      LET S == FiniteIn(seg)
          m == fnRes.med[seg]
      IN /\ m.mcap = Num(ExpectedMedian(S, 30))
         /\ m.credit = Num(ExpectedMedian(S, 50))
         /\ m.gdppc = Num(ExpectedMedian(S, 8000))
         /\ m.net = Num(ExpectedMedian(S, 55))
         /\ ValueBag(seg) = (10 :> 1 @@ 20 :> 1 @@ 30 :> 1) => m.mcap = Num(20)
         /\ ValueBag(seg) = (10 :> 1 @@ 20 :> 1) => m.mcap = Num(15)

C13_Witness ==
  /\ pc = "returned"
  /\ fnRes.k = "medians"
  /\ ValueBag("AMERICAS") = (10 :> 1 @@ 20 :> 1)
  /\ fnRes.med["AMERICAS"].credit = Num(15)
  /\ FiniteIn("EMEA") = {}
  /\ \E i \in 1..Len(fnArg.countries) :
       /\ fnArg.countries[i].seg = "EMEA"
       /\ ValueOf(fnArg.map, fnArg.countries[i].iso3) = NaNV
  /\ fnRes.med["EMEA"] = [mcap |-> Num(30), credit |-> Num(50),
                          gdppc |-> Num(8000), net |-> Num(55)]

\* the commas of the line with an even number of quotes before them
CommasOutsideQuotes(line) ==
  Cardinality({i \in 1..Len(line) :
                 /\ line[i] = COMMA
                 /\ Cardinality({j \in 1..(i - 1) : line[j] = QUOTE}) % 2 = 0})

\* C14: splitCsvLine returns one field more than the line has commas outside
\* quotes, for every line; of a line written by the CSV quoting rules (a field
\* between quotes where it holds a comma or a quote, its quotes doubled) it
\* returns the fields that were written, so USA,"Smith, John",1 gives USA,
\* Smith, John and 1, and "He said ""hi""" gives He said "hi".
C14_CsvQuoting ==
  pc = "returned" /\ fnRes.k = "fields" =>
    /\ Len(fnRes.out) = CommasOutsideQuotes(fnArg.line) + 1
    /\ fnArg.written => fnRes.out = fnArg.fields
    /\ fnArg.line = ScenarioLine => fnRes.out = ScenarioFields
    /\ fnArg.line = ScenarioQuoted => fnRes.out = <<ScenarioQuotedField>>

C14_Witness ==
  /\ pc = "returned"
  /\ fnRes.k = "fields"
  /\ fnArg.line = ScenarioLine
  /\ Len(fnRes.out) = 3
  /\ fnRes.out[2] = ScenarioFields[2]

SegScoreSum(seg) == MapSum(scores[seg], DOMAIN scores[seg])

\* the amount is a number: in every segment a quotient of two numbers with a
\* positive divisor
WellDefined(m) ==
  \A g \in SegNames : ~m[g].num.nan /\ Positive(m[g].den)

\* C15: when the sum of a segment's scores is not a positive number, every
\* allocation row of the segment has revenueMillions 0 and its country has
\* share 0 in the payload; no row's revenue is a quotient by a sum that is not
\* positive.
C15_ZeroSumSegment ==
  Allocated =>
    /\ \A j \in 1..Len(allocations) : WellDefined(allocations[j].revenueMillions)
    /\ \A seg \in SegNames :
         ~Positive(SegScoreSum(seg)) =>
           \A j \in 1..Len(allocations) :
             allocations[j].segment = seg =>
               /\ allocations[j].revenueMillions = ZeroMoney
               /\ ShareIsZero(iso3ToIntensity[allocations[j].iso3])
               /\ pc = "done" =>
                    \A m \in DetailsOf(allocations[j].iso3) :
                      payload.countryDetails[m].segment = seg =>
                        /\ payload.countryDetails[m].revenueMillions = ZeroMoney
                        /\ ShareIsZero(payload.countryDetails[m].share)

C15_Witness ==
  /\ pc = "done"
  /\ \E seg \in SegNames :
       /\ ~Positive(SegScoreSum(seg))
       /\ \E k \in DOMAIN scores[seg] : Positive(scores[seg][k])
       /\ Cardinality({j \in 1..Len(allocations) :
                         /\ allocations[j].segment = seg
                         /\ allocations[j].revenueMillions = ZeroMoney}) >= 2
  /\ \E j \in 1..Len(allocations) : MoneyPositive(allocations[j].revenueMillions)

RowsIn(seg) == {j \in 1..Len(allocations) : allocations[j].segment = seg}
ScoreOfRow(row) == scores[row.segment][row.iso3]
GdpOf(iso3) == ValueOf(lookups["gdp"], iso3).x

\* no override applies to the row's country
Plain(row) == ~row.hub /\ ~row.office /\ ~row.nearZero

SameFour(a, b) ==
  \A f \in {"mcap", "credit", "gdppc", "net"} :
    ValueOf(lookups[f], a) = ValueOf(lookups[f], b)

\* x * Math.pow(gb, 0.7) and y * Math.pow(ga, 0.7) differ by at most 2 percent,
\* x and y the scores in whole units
WithinTolerance(x, ga, y, gb) ==
  LET l == (x.v \div 40000) * PowGdp(gb)
      r == (y.v \div 40000) * PowGdp(ga)
  IN (IF l > r THEN l - r ELSE r - l) * 50 <= r

\* C16: in a segment whose score sum is positive every row's revenueMillions is
\* anchor * score / sum, so revenue(a) * score(b) = revenue(b) * score(a) for
\* two rows of the segment; for two countries without override, with a valid
\* GDP and the same other indicators the revenues are in the order of the GDPs
\* and in the ratio of GDP^0.7 (1000, 2000, 500 gives B > A > C).
C16_Proportional ==
  Allocated =>
    \A seg \in SegNames :
      Positive(SegScoreSum(seg)) =>
        \A i \in RowsIn(seg) :
          LET a == allocations[i]
          IN /\ a.revenueMillions =
                  AnchorTimes(seg, [num |-> ScoreOfRow(a), den |-> SegScoreSum(seg)])
             /\ \A j \in RowsIn(seg) :
                  LET b == allocations[j]
                  IN /\ RevOf(a).den = RevOf(b).den
                     /\ pc = "assemble" =>
                          BigMul(Nano(RevOf(a).num), Nano(ScoreOfRow(b)))
                            = BigMul(Nano(RevOf(b).num), Nano(ScoreOfRow(a)))
                     /\ (/\ Plain(a) /\ Plain(b)
                         /\ ValidGdp(a.iso3) /\ ValidGdp(b.iso3)
                         /\ SameFour(a.iso3, b.iso3)) =>
                          /\ GdpOf(a.iso3) < GdpOf(b.iso3) => RevLess(RevOf(a), RevOf(b))
                          /\ GdpOf(a.iso3) = GdpOf(b.iso3) => RevOf(a) = RevOf(b)
                          /\ WithinTolerance(ScoreOfRow(a), GdpOf(a.iso3),
                                             ScoreOfRow(b), GdpOf(b.iso3))

\* the scenario: A with 1000, B with 2000, C with 500 and nothing else
C16_Witness ==
  /\ pc = "done"
  /\ Len(allocations) = 3
  /\ GdpOf(allocations[1].iso3) = 1000
  /\ GdpOf(allocations[2].iso3) = 2000
  /\ GdpOf(allocations[3].iso3) = 500
  /\ \A j \in 1..3 : Plain(allocations[j]) /\ ValidGdp(allocations[j].iso3)
  /\ RevLess(RevOf(allocations[1]), RevOf(allocations[2]))
  /\ RevLess(RevOf(allocations[3]), RevOf(allocations[1]))

\* the composite score of the row's country before the override multipliers:
\* the score of a country with the same indicators that is in no override table
BaseScore(row) ==
  CompositeScore("", ValueOf(lookups["gdp"], row.iso3),
    Coalesce(ValueOf(lookups["mcap"], row.iso3), segMedian[row.segment].mcap),
    Coalesce(ValueOf(lookups["credit"], row.iso3), segMedian[row.segment].credit),
    Coalesce(ValueOf(lookups["gdppc"], row.iso3), segMedian[row.segment].gdppc),
    Coalesce(ValueOf(lookups["net"], row.iso3), segMedian[row.segment].net))

\* s = base * (h / 20) * (o / 20) * (n / 100)
TimesMultipliers(s, base, h, o, n) ==
  IF base.nan THEN s.nan
  ELSE /\ ~s.nan
       /\ base.v % 40000 = 0
       /\ s.v = (base.v \div 40000) * h * o * n
       /\ s.e = 0

\* the three multipliers of lines 264-266 are reached for the row's country
MultipliersApplied(row) == ValidGdp(row.iso3)

\* C17 as stated: for every country with a segment the flags hub, office and
\* nearZero of its row are true exactly when the corresponding multiplier was
\* applied to its score.
C17_FlagsMeanApplied ==
  Allocated =>
    \A j \in 1..Len(allocations) :
      LET row == allocations[j]
      IN /\ row.hub <=> (MultipliersApplied(row) /\ row.iso3 \in DOMAIN HUB_MULT)
         /\ row.office <=> (MultipliersApplied(row) /\ row.iso3 \in OFFICE_COUNTRIES)
         /\ row.nearZero <=> (MultipliersApplied(row) /\ row.iso3 \in NEAR_ZERO)

\* C17 amended: the flags of a row say that its country is in the hub table,
\* the office set, the near-zero set; when the country's GDP is finite and
\* positive its score is the base composite score times the hub multiplier of
\* the table (1.0 outside it), times 1.15 in the office set, times 0.01 in the
\* near-zero set, all that apply compounding; otherwise its score is 1e-9
\* whatever the flags.
C17_MultipliersCompound ==
  Allocated =>
    \A j \in 1..Len(allocations) :
      LET row == allocations[j]
      IN /\ row.hub <=> row.iso3 \in DOMAIN HUB_MULT
         /\ row.office <=> row.iso3 \in OFFICE_COUNTRIES
         /\ row.nearZero <=> row.iso3 \in NEAR_ZERO
         /\ IF ValidGdp(row.iso3)
            THEN TimesMultipliers(ScoreOfRow(row), BaseScore(row),
                                  IF row.hub THEN HUB_MULT[row.iso3] ELSE 20,
                                  IF row.office THEN 23 ELSE 20,
                                  IF row.nearZero THEN 1 ELSE 100)
            ELSE ScoreOfRow(row) = FloorS

\* a hub that is an office location too, a near-zero country and a country in
\* no table, all scored from a valid GDP, and the hub's score is 1.3 * 1.15
\* times its base
C17_Witness ==
  /\ pc = "done"
  /\ \E a, b, d \in 1..Len(allocations) :
       /\ allocations[a].hub /\ allocations[a].office /\ ~allocations[a].nearZero
       /\ allocations[b].nearZero /\ ~allocations[b].hub
       /\ Plain(allocations[d])
       /\ \A j \in {a, b, d} :
            ValidGdp(allocations[j].iso3) /\ ~ScoreOfRow(allocations[j]).nan
       /\ ScoreOfRow(allocations[a]).v
            = (BaseScore(allocations[a]).v \div 40000) * 26 * 23 * 100

Missing(col) == col \in {NULL, ""}
\* the column after String.prototype.trim, a missing one staying missing
Trimmed(col) == IF col = NULL THEN NULL ELSE Trim(col)

\* the data rows with an iso3 and a name, in input order
RowsWithBoth(rows) ==
  SelectSeq(rows, LAMBDA r : ~Missing(r.alpha3) /\ ~Missing(r.name))
RowsWithBothTrimmed(rows) ==
  SelectSeq(rows, LAMBDA r : ~Missing(Trimmed(r.alpha3)) /\ ~Missing(Trimmed(r.name)))

\* C18 as stated: the loader returns one record per data row whose iso3 and
\* name are neither missing nor empty, in input order, and the record's segment
\* is segmentOfCountry of the row's region and sub-region as they stand.
C18_DropsMissingOrEmpty ==
  pc = "returned" /\ fnRes.k \in {"countries", "script"} =>
    LET kept == RowsWithBoth(fnArg)
    IN /\ Len(fnRes.out) = Len(kept)
       /\ \A i \in 1..Len(kept) :
            /\ fnRes.out[i].name = kept[i].name
            /\ fnRes.out[i].region = kept[i].region
            /\ fnRes.out[i].subRegion = kept[i].subRegion
            /\ fnRes.out[i].seg = ExpectedSegment(kept[i].region, kept[i].subRegion)

\* C18 amended: the loader of exposure-core.ts trims every column and puts the
\* iso3 in upper case first; it returns one record per data row whose trimmed
\* iso3 and trimmed name are neither missing nor empty, in input order, with
\* the segment of the trimmed region and sub-region.  The loader of the .mjs
\* script does what the claim says on the columns as read.
C18_DropsAfterTrim ==
  pc = "returned" =>
    /\ fnRes.k = "countries" =>
         LET kept == RowsWithBothTrimmed(fnArg)
         IN /\ Len(fnRes.out) = Len(kept)
            /\ \A i \in 1..Len(kept) :
                 /\ fnRes.out[i].iso3 = ToUpperCase(Trimmed(kept[i].alpha3))
                 /\ fnRes.out[i].name = Trimmed(kept[i].name)
                 /\ fnRes.out[i].region = Trimmed(kept[i].region)
                 /\ fnRes.out[i].subRegion = Trimmed(kept[i].subRegion)
                 /\ fnRes.out[i].seg = ExpectedSegment(Trimmed(kept[i].region),
                                                       Trimmed(kept[i].subRegion))
    /\ fnRes.k = "script" =>
         LET kept == RowsWithBoth(fnArg)
         IN /\ Len(fnRes.out) = Len(kept)
            /\ \A i \in 1..Len(kept) :
                 /\ fnRes.out[i].iso3 = kept[i].alpha3
                 /\ fnRes.out[i].name = kept[i].name
                 /\ fnRes.out[i].region = kept[i].region
                 /\ fnRes.out[i].subRegion = kept[i].subRegion
                 /\ fnRes.out[i].seg = ExpectedSegment(kept[i].region, kept[i].subRegion)

\* a row with a blank name is dropped and the padded row after it is kept,
\* trimmed, in upper case and in the segment of its trimmed region
C18_Witness ==
  /\ pc = "returned"
  /\ fnRes.k = "countries"
  /\ Len(fnArg) = 2
  /\ fnArg[1].alpha3 = "USA" /\ fnArg[1].name = " "
  /\ fnArg[2].alpha3 = " usa" /\ fnArg[2].name = "N" /\ fnArg[2].region = " Americas"
  /\ Len(fnRes.out) = 1
  /\ fnRes.out[1].iso3 = "USA"
  /\ fnRes.out[1].seg = "AMERICAS"

\* the rows of countryDetails that come from an allocation row
AllocatedDetails ==
  {i \in 1..Len(payload.countryDetails) :
     \E j \in 1..Len(allocations) : allocations[j].iso3 = payload.countryDetails[i].iso3}

\* the row's share is not below maxShare
AttainsMax(i) == ~ShareGreater(payload.maxShare, payload.countryDetails[i].share)

\* maxShare is the maximum of the shares of countryDetails, 0 without rows
IsMaxOfShares ==
  /\ \A i \in 1..Len(payload.countryDetails) :
       ~ShareGreater(payload.countryDetails[i].share, payload.maxShare)
  /\ IF payload.countryDetails = <<>>
     THEN payload.maxShare = ZeroShare
     ELSE \E i \in 1..Len(payload.countryDetails) : AttainsMax(i)

Contents ==
  [f \in FEEDS |-> IF f \in failedFeeds THEN MessageBody
                   ELSE CHOOSE body \in SmallBodies[f] : TRUE]

\* the payload as a function of the country list and the feed contents alone
PayloadOfContents ==
  LET lk == Lookups(Contents)
      med == SegMedians(countries, lk)
      rows == Allocations(countries, Scores(countries, lk, med))
      total == TotalRevenue(rows)
      acc == IntensityLoop(rows, total, [map |-> <<>>, max |-> ZeroShare])
      out == DetailsFill(countries, lk,
               [map |-> acc.map,
                details |-> DetailsFromRows(rows, countries, lk, total, <<>>)])
  IN [k |-> "payload", iso3ToIntensity |-> out.map, countryDetails |-> out.details,
      totalRevenueMillions |-> total, maxShare |-> acc.max]

\* a step of the join is one pending retrieval writing its own body, every
\* other body staying as it is
OwnLookupOnly ==
  pc = "fetching" /\ pc' = "fetching" =>
    \E f \in pending :
      /\ pending' = pending \ {f}
      /\ json[f] = EmptyBody
      /\ json'[f] # EmptyBody
      /\ \A g \in FEEDS \ {f} : json'[g] = json[g]

\* C20: for given feed contents the medians and the payload (revenue, share,
\* flags of every country) are the same whatever the order in which the six
\* retrievals complete, and a completing retrieval writes its own result only.
C20_OrderIndependent ==
  /\ [](PastBarrier => json = Contents)
  /\ [](PastBarrier => segMedian = SegMedians(countries, Lookups(Contents)))
  /\ [](pc = "done" => payload = PayloadOfContents)
  /\ [][OwnLookupOnly]_vars

\* the payload of an invocation in which the market-cap retrieval got an error
\* body and the others their data, with revenue allocated
C20_Witness ==
  /\ pc = "done"
  /\ failedFeeds = {"mcap"}
  /\ payload = PayloadOfContents
  /\ \E i \in 1..Len(payload.countryDetails) :
       MoneyPositive(payload.countryDetails[i].revenueMillions)

\* the input seen from one segment: its countries, and the indicator lookups
\* without the entries of every other country
CodesIn(seg) == {countries[i].iso3 : i \in {j \in 1..Len(countries) : countries[j].seg = seg}}
CountriesIn(seg) == SelectSeq(countries, LAMBDA c : c.seg = seg)
LookupsIn(seg) ==
  [f \in FEEDS |-> [k \in DOMAIN lookups[f] \cap CodesIn(seg) |-> lookups[f][k]]]

\* medians, scores and rows computed from the segment's own input
MediansAlone(seg) == SegMedians(CountriesIn(seg), LookupsIn(seg))
ScoresAlone(seg) == Scores(CountriesIn(seg), LookupsIn(seg), MediansAlone(seg))
RowsAlone(seg) == Allocations(CountriesIn(seg), ScoresAlone(seg))

\* C21: the medians, the scores and the allocation rows (revenueMillions and
\* flags) of a segment are those computed from the segment's own countries and
\* their indicator values alone, so that no change to the GDP, the indicators
\* or the override status of countries of another segment changes them; the
\* global share is revenueMillions over the grand total of all segments.
C21_SegmentIndependence ==
  Allocated =>
    \A seg \in SegNames :
      /\ segMedian[seg] = MediansAlone(seg)[seg]
      /\ scores[seg] = ScoresAlone(seg)[seg]
      /\ RowsOf(seg) = RowsAlone(seg)
      /\ pc = "done" =>
           \A i \in 1..Len(payload.countryDetails) :
             LET d == payload.countryDetails[i]
             IN d.segment = seg /\ d.iso3 \in DOMAIN scores[seg] =>
                  /\ \E j \in 1..Len(RowsAlone(seg)) :
                       /\ RowsAlone(seg)[j].iso3 = d.iso3
                       /\ RowsAlone(seg)[j].revenueMillions = d.revenueMillions
                  /\ ShareIsQuotient(d.share, d.revenueMillions,
                                     payload.totalRevenueMillions)

\* two segments with allocated revenue: a country's revenue is what its segment
\* alone gives, its share is smaller than the share it has in the total of its
\* own segment alone
C21_Witness ==
  /\ pc = "done"
  /\ \E seg, other \in SegNames :
       /\ seg # other
       /\ Live(seg) /\ Live(other)
       /\ Cardinality(DOMAIN scores[seg]) >= 2
       /\ \E f \in FEEDS \ {"gdp", "pop"} :
            \E k \in DOMAIN lookups[f] : k \in CodesIn(other) /\ k \notin CodesIn(seg)
       /\ \E i \in 1..Len(payload.countryDetails) :
            LET d == payload.countryDetails[i]
            IN /\ d.segment = seg
               /\ MoneyPositive(d.revenueMillions)
               /\ ShareGreater(ShareOf(d.revenueMillions, TotalRevenue(RowsAlone(seg))),
                               d.share)

\* what the claim compares: iso3, segment, revenue and the three flags
CoreRowSet ==
  {<<r.iso3, r.segment, r.revenueMillions, r.office, r.hub, r.nearZero>> :
     r \in Range(fnRes.core.rows)}
ScriptRowSet ==
  {<<r.iso3, r.segment, r.revenue_usd_millions_est, r.office = 1, r.hub = 1,
     r.near_zero = 1>> : r \in Range(fnRes.script.rows)}

\* C22: on the same taxonomy text and the same five indicator feeds the export
\* script and buildExposureData produce the same set of allocation rows: the
\* same iso3 codes with the same segment, revenue and office, hub and
\* near-zero flags.
C22_SameAllocationRows ==
  pc = "returned" /\ fnRes.k = "runs" =>
    /\ fnRes.core.k = fnRes.script.k
    /\ fnRes.core.k = "rows" => CoreRowSet = ScriptRowSet

====
